---- MODULE Spec2Model ----
(***************************************************************************)
(* A model of the agent orchestration layer (src/core/agent/multi_agent.py),*)
(* of the streaming chat coordinator (src/api/v1/endpoints/chat.py), of     *)
(* tool loading (src/core/mcp/client.py) and of the retrieval engine        *)
(* (src/core/rag/enhanced_rag.py).                                          *)
(*                                                                          *)
(* Text is modelled as a sequence of one-character strings, so that         *)
(* lower-casing, substring search and per-character streaming are computed  *)
(* and not assumed.                                                         *)
(***************************************************************************)
EXTENDS Integers, Sequences, FiniteSets, TLC

VARIABLES
    agents,      \* MultiAgentOrchestrator.agents: AgentType -> Agent (a dict)
    created,     \* number of Agent objects constructed so far
    regLog,      \* history: the agents passed to register_agent, in call order
    rpc,         \* "idle" | "returned": position of the caller of route_query
    call,        \* history: arguments of the route_query call just made
    selected,    \* history: what _select_agent returned in that call, if called
    invoked,     \* history: the Agent.invoke calls made by that route_query call
    ret,         \* the dict that route_query returned (NoReturn before a return)
    spc,         \* position of chat_stream.generate() (a suspension point)
    turn,        \* number of streamed turns started
    request,     \* the ChatRequest of the turn
    conversation,\* the Conversation row of the session
    db,          \* the committed Message rows of the conversation, in order
    gen_history, \* generate(): history
    full_response, \* generate(): full_response
    tools_used,  \* generate(): tools_used
    pending,     \* generate(): the characters of response_text not yet emitted
    nchunks,     \* chunks llm.astream has produced in this turn
    events,      \* history: what generate() has yielded in this turn
    cancelled,   \* history: the client disconnected during this turn
    ragAvailable,\* rag_system.available
    engine,      \* history: who generate() asked for the answer: "llm",
                 \* "orchestrator", or "retrieval" (which generate() never calls)
    mpc,         \* position of load_mcp_tools()
    enabled_servers, \* load_mcp_tools(): enabled_servers
    srv,         \* __aenter__: index of the server the loop is at
    mgr_tools,   \* MCPClientManager.tools
    mgr_sessions,\* MCPClientManager.sessions: the tracked (client, session) pairs
    opened,      \* the connections and sessions that are open
    attempts,    \* history: the servers tried by __aenter__ and how each ended
    closing,     \* __aexit__: the pairs its loop has still to close
    closeLog,    \* history: the closes __aexit__ attempted, in order
    loaded,      \* what load_mcp_tools() returned
    server_url,  \* __aenter__: server_url
    final_url,   \* __aenter__: final_url
    store,       \* the chunks in the vector store, in insertion order
    ndocs,       \* documents ingested so far
    rag_call,    \* history: the last call made on the retrieval engine
    rag_ret,     \* what that call returned
    usage_call,  \* history: the last call made on the token-usage utilities
    usage_ret,   \* what that call returned
    tasks,       \* the in-flight request handlers (chat or chat_stream)
    convs,       \* the Conversation table
    msg_table,   \* the Message table, in order of commit
    nturns,      \* requests received so far
    tool_loads   \* load_mcp_tools() calls made by the request handlers

ovars == <<agents, created, regLog, rpc, call, selected, invoked, ret>>

svars == <<spc, turn, request, conversation, db, gen_history, full_response,
           tools_used, pending, nchunks, events, cancelled, ragAvailable, engine>>

mvars == <<mpc, enabled_servers, srv, mgr_tools, mgr_sessions, opened, attempts,
           closing, closeLog, loaded>>

uvars == <<server_url, final_url>>

gvars == <<store, ndocs, rag_call, rag_ret>>

lvars == <<usage_call, usage_ret>>

tvars == <<tasks, convs, msg_table, nturns, tool_loads>>

\* the variables of tool loading, of the retrieval engine, of the token-usage
\* utilities and of the concurrent request handlers
xvars == <<mvars, uvars, gvars, lvars, tvars>>

vars == <<ovars, svars, xvars>>

None == "None"

(***************************************************************************)
(* Bounds of the model.                                                     *)
(***************************************************************************)
MaxAgents == 2     \* Agent objects constructed in one behaviour
MaxTurns == 2      \* streamed turns in one behaviour
MaxChunks == 2     \* chunks one llm.astream call produces
MaxServers == 2    \* servers in the tool-server configuration
MaxSegments == 4   \* path segments after the host of a server URL
MaxDocs == 2       \* documents ingested in one behaviour
MaxRequests == 2   \* requests the two chat endpoints receive in one behaviour
MaxChunksPerDoc == 2 \* chunks the splitter cuts one document into

(***************************************************************************)
(* Text helpers.                                                            *)
(***************************************************************************)
UpperAlphabet ==
    <<"A", "B", "C", "D", "E", "F", "G", "H", "I", "J", "K", "L", "M",
      "N", "O", "P", "Q", "R", "S", "T", "U", "V", "W", "X", "Y", "Z">>

LowerAlphabet ==
    <<"a", "b", "c", "d", "e", "f", "g", "h", "i", "j", "k", "l", "m",
      "n", "o", "p", "q", "r", "s", "t", "u", "v", "w", "x", "y", "z">>

\* str.lower() on one character
LowerChar(c) ==
    IF \E i \in 1..Len(UpperAlphabet) : UpperAlphabet[i] = c
    THEN LowerAlphabet[CHOOSE i \in 1..Len(UpperAlphabet) : UpperAlphabet[i] = c]
    ELSE c

\* str.lower()
RECURSIVE Lower(_)
Lower(s) == IF s = <<>> THEN <<>> ELSE <<LowerChar(Head(s))>> \o Lower(Tail(s))

\* Python's  w in s  for strings: w occurs in s as a contiguous substring
Contains(s, w) ==
    \E i \in 0..(Len(s) - Len(w)) : SubSeq(s, i + 1, i + Len(w)) = w

\* any(word in s for word in cues)
AnyCue(s, cues) == \E i \in 1..Len(cues) : Contains(s, cues[i])

(***************************************************************************)
(* AgentType and the keyword tables of _select_agent.                       *)
(***************************************************************************)
RESEARCH == "research"
CODING == "coding"
DATA_ANALYSIS == "data_analysis"
GENERAL == "general"

AgentType == {RESEARCH, CODING, DATA_ANALYSIS, GENERAL}

ResearchCues ==
    << <<"s", "e", "a", "r", "c", "h">>,
       <<"r", "e", "s", "e", "a", "r", "c", "h">>,
       <<"f", "i", "n", "d">>,
       <<"l", "o", "o", "k", "u", "p">>,
       <<"w", "h", "a", "t", " ", "i", "s">> >>

CodingCues ==
    << <<"c", "o", "d", "e">>,
       <<"p", "r", "o", "g", "r", "a", "m", "m", "i", "n", "g">>,
       <<"f", "u", "n", "c", "t", "i", "o", "n">>,
       <<"d", "e", "b", "u", "g">>,
       <<"i", "m", "p", "l", "e", "m", "e", "n", "t">> >>

DataCues ==
    << <<"d", "a", "t", "a">>,
       <<"a", "n", "a", "l", "y", "z", "e">>,
       <<"s", "t", "a", "t", "i", "s", "t", "i", "c", "s">>,
       <<"c", "h", "a", "r", "t">>,
       <<"g", "r", "a", "p", "h">> >>

\* _select_agent with the first branch dropped into second place (faulty variant)
SelectAgentCodingFirst(query) ==
    LET query_lower == Lower(query) IN
    IF AnyCue(query_lower, CodingCues) THEN CODING
    ELSE IF AnyCue(query_lower, ResearchCues) THEN RESEARCH
    ELSE IF AnyCue(query_lower, DataCues) THEN DATA_ANALYSIS
    ELSE GENERAL

\* MultiAgentOrchestrator._select_agent
SelectAgent(query) ==
    LET query_lower == Lower(query) IN
    IF AnyCue(query_lower, ResearchCues) THEN RESEARCH
    ELSE IF AnyCue(query_lower, CodingCues) THEN CODING
    ELSE IF AnyCue(query_lower, DataCues) THEN DATA_ANALYSIS
    ELSE GENERAL

(***************************************************************************)
(* Inputs: the queries route_query is called with.                          *)
(***************************************************************************)
\* "research how to debug a loop"
QResearchDebug ==
    <<"r", "e", "s", "e", "a", "r", "c", "h", " ", "h", "o", "w", " ", "t",
    "o", " ", "d", "e", "b", "u", "g", " ", "a", " ", "l", "o", "o", "p">>

\* "Debug my DATA"
QDebugData ==
    <<"D", "e", "b", "u", "g", " ", "m", "y", " ", "D", "A", "T", "A">>

\* "analyze the chart"
QAnalyzeChart ==
    <<"a", "n", "a", "l", "y", "z", "e", " ", "t", "h", "e", " ", "c", "h",
    "a", "r", "t">>

\* "hello"
QHello ==
    <<"h", "e", "l", "l", "o">>

\* "What is code"
QWhatIsCode ==
    <<"W", "h", "a", "t", " ", "i", "s", " ", "c", "o", "d", "e">>

\* "what data is"
QWhatDataIs ==
    <<"w", "h", "a", "t", " ", "d", "a", "t", "a", " ", "i", "s">>

\* "encode graph"
QEncodeGraph ==
    <<"e", "n", "c", "o", "d", "e", " ", "g", "r", "a", "p", "h">>

\* "implement find"
QImplementFind ==
    <<"i", "m", "p", "l", "e", "m", "e", "n", "t", " ", "f", "i", "n", "d">>

Queries ==
    { QResearchDebug, QDebugData, QAnalyzeChart, QHello,
      QWhatIsCode, QWhatDataIs, QEncodeGraph, QImplementFind }

(***************************************************************************)
(* Messages (langchain_core.messages) and literal texts.                    *)
(***************************************************************************)
\* token usage that is absent (Python None, or a missing key or attribute)
NoUsage ==
    [present |-> FALSE, prompt_tokens |-> 0, completion_tokens |-> 0, total_tokens |-> 0]

\* a usage_metadata attribute that is absent
NoUsageMetadata ==
    [present |-> FALSE, has_prompt_tokens |-> FALSE, has_total |-> FALSE,
     prompt_tokens |-> 0, completion_tokens |-> 0, total_token_count |-> 0]

HumanMessage(c) ==
    [type |-> "human", content |-> c, tool_calls |-> <<>>,
     response_usage |-> NoUsage, usage_metadata |-> NoUsageMetadata]

AIMessage(c) ==
    [type |-> "ai", content |-> c, tool_calls |-> <<>>,
     response_usage |-> NoUsage, usage_metadata |-> NoUsageMetadata]

ToolMessage(c) ==
    [type |-> "tool", content |-> c, tool_calls |-> <<>>,
     response_usage |-> NoUsage, usage_metadata |-> NoUsageMetadata]

TxtOk == <<"o", "k">>
TxtHi == <<"h", "i">>
TxtRagUnavailable ==
    <<"R", "A", "G", " ", "s", "y", "s", "t", "e", "m", " ", "n", "o", "t",
      " ", "a", "v", "a", "i", "l", "a", "b", "l", "e">>
TxtBoom == <<"b", "o", "o", "m">>
TxtNotIterable == <<"n", "o", "t", " ", "i", "t", "e", "r", "a", "b", "l", "e">>
TxtIndexError ==
    <<"l", "i", "s", "t", " ", "i", "n", "d", "e", "x", " ", "o", "u", "t",
      " ", "o", "f", " ", "r", "a", "n", "g", "e">>
TxtAgentError == <<"A", "g", "e", "n", "t", " ", "e", "r", "r", "o", "r", ":", " ">>
TxtNoAgentAvailable ==
    <<"N", "o", " ", "a", "g", "e", "n", "t", " ", "a", "v", "a", "i", "l",
      "a", "b", "l", "e">>
TxtNoAgentConfigured ==
    <<"N", "o", " ", "a", "g", "e", "n", "t", " ", "c", "o", "n", "f", "i",
      "g", "u", "r", "e", "d">>

\* str(message) of a message that is not an AIMessage: the content inside the
\* field rendering  content='...'
StrOfMessage(m) ==
    <<"c", "o", "n", "t", "e", "n", "t", "=", "'">> \o m.content \o <<"'">>

\* the history argument: None, a list of messages, or a value that is not
\* iterable (list(history) raises TypeError)
HistNone == [kind |-> "none", items |-> <<>>]
HistBad == [kind |-> "bad", items |-> <<>>]
HistList(items) == [kind |-> "list", items |-> items]

Histories == { HistNone, HistBad, HistList(<<HumanMessage(TxtHi), AIMessage(TxtOk)>>) }

(***************************************************************************)
(* What the executor (create_react_agent(...).ainvoke) does with a message  *)
(* list is the environment's choice: it raises, returns a result without    *)
(* messages, or returns the input messages followed by generated ones.      *)
(***************************************************************************)
UsageA ==
    [present |-> TRUE, prompt_tokens |-> 3, completion_tokens |-> 2, total_tokens |-> 5]

UsageC ==
    [present |-> TRUE, prompt_tokens |-> 7, completion_tokens |-> 1, total_tokens |-> 8]

UsageMetadataB ==
    [present |-> TRUE, has_prompt_tokens |-> TRUE, has_total |-> FALSE,
     prompt_tokens |-> 4, completion_tokens |-> 1, total_token_count |-> 0]

ExecOutcomes ==
    { [kind |-> "raise", cause |-> TxtBoom, token_usage |-> NoUsage, generated |-> <<>>],
      [kind |-> "malformed", cause |-> TxtIndexError, token_usage |-> NoUsage,
       generated |-> <<>>],
      [kind |-> "result", cause |-> <<>>, token_usage |-> NoUsage,
       generated |-> <<AIMessage(TxtOk)>>],
      [kind |-> "result", cause |-> <<>>, token_usage |-> UsageA,
       generated |-> <<[AIMessage(<<>>) EXCEPT !.response_usage = UsageC]>>],
      [kind |-> "result", cause |-> <<>>, token_usage |-> NoUsage,
       generated |-> << [AIMessage(<<>>) EXCEPT !.tool_calls = <<"calc", "web", "calc">>,
                                                !.response_usage = UsageA],
                        ToolMessage(TxtHi),
                        [AIMessage(TxtOk) EXCEPT !.usage_metadata = UsageMetadataB] >>],
      [kind |-> "result", cause |-> <<>>, token_usage |-> NoUsage,
       generated |-> << [AIMessage(<<>>) EXCEPT !.tool_calls = <<"calc">>,
                                                !.usage_metadata = UsageMetadataB],
                        ToolMessage(TxtHi) >>] }

(***************************************************************************)
(* Agent.invoke                                                             *)
(***************************************************************************)
\* tool names of every AIMessage of the result, as list(set(...)) keeps them
ToolsUsed(msgs) ==
    UNION { { msgs[i].tool_calls[j] : j \in 1..Len(msgs[i].tool_calls) }
            : i \in { k \in 1..Len(msgs) : msgs[k].type = "ai" } }

\* the scan of the result messages from index i down to 1 for token usage
RECURSIVE ScanUsage(_, _)
ScanUsage(msgs, i) ==
    IF i = 0 THEN NoUsage
    ELSE LET msg == msgs[i]
             um == msg.usage_metadata
         IN  IF msg.response_usage.present THEN msg.response_usage
             ELSE IF um.present /\ um.has_prompt_tokens
             THEN [present |-> TRUE,
                   prompt_tokens |-> um.prompt_tokens,
                   completion_tokens |-> um.completion_tokens,
                   total_tokens |-> IF um.has_total THEN um.total_token_count
                                    ELSE um.prompt_tokens + um.completion_tokens]
             ELSE ScanUsage(msgs, i - 1)

\* the token usage probes without the one of the result dict (faulty variant)
TokenUsageSkipsResult(exec, msgs) ==
    IF msgs[Len(msgs)].response_usage.present THEN msgs[Len(msgs)].response_usage
    ELSE ScanUsage(msgs, Len(msgs))

\* the token usage probes, first success wins
TokenUsage(exec, msgs) ==
    IF exec.token_usage.present THEN exec.token_usage
    ELSE IF msgs[Len(msgs)].response_usage.present THEN msgs[Len(msgs)].response_usage
    ELSE ScanUsage(msgs, Len(msgs))

\* what the except branch of Agent.invoke returns
InvokeFailure(agent, cause) ==
    [response |-> TxtAgentError \o cause,
     agent |-> agent.id,
     agent_type |-> agent.agent_type,
     tools_used |-> {},
     success |-> FALSE,
     error |-> cause]

\* what Agent.invoke returns when nothing failed
InvokeSuccess(agent, exec, out) ==
    LET final_message == out[Len(out)] IN
    [response |-> IF final_message.type = "ai" THEN final_message.content
                  ELSE StrOfMessage(final_message),
     agent |-> agent.id,
     agent_type |-> agent.agent_type,
     tools_used |-> ToolsUsed(out),
     token_usage |-> TokenUsage(exec, out),
     success |-> TRUE]

\* the messages Agent.invoke builds: a copy of the history, then the query
BuildMessages(query, history) == history.items \o <<HumanMessage(query)>>

\* the result["messages"] list of an executor outcome
ExecMessages(exec, messages) ==
    IF exec.kind = "result" THEN messages \o exec.generated ELSE <<>>

\* the dict of an exception that left the method
Raised(cause) == [raised |-> TRUE, error |-> cause]

\* Agent.invoke with the try block ending after the ainvoke call, so that the
\* post-processing runs outside it (faulty variant)
InvokePostUnguarded(agent, query, history, exec) ==
    IF history.kind = "bad" THEN InvokeFailure(agent, TxtNotIterable)
    ELSE IF exec.kind = "raise" THEN InvokeFailure(agent, exec.cause)
    ELSE LET out == ExecMessages(exec, BuildMessages(query, history)) IN
         IF out = <<>> THEN Raised(TxtIndexError)
         ELSE InvokeSuccess(agent, exec, out)

\* Agent.invoke: the dict it returns
Invoke(agent, query, history, exec) ==
    IF history.kind = "bad" THEN InvokeFailure(agent, TxtNotIterable)
    ELSE IF exec.kind = "raise" THEN InvokeFailure(agent, exec.cause)
    ELSE LET out == ExecMessages(exec, BuildMessages(query, history)) IN
         IF out = <<>> THEN InvokeFailure(agent, TxtIndexError)
         ELSE InvokeSuccess(agent, exec, out)

\* the record of one Agent.invoke call
Invocation(agent, query, history, exec) ==
    [agent |-> agent, query |-> query, history |-> history, exec |-> exec,
     result |-> Invoke(agent, query, history, exec)]

(***************************************************************************)
(* MultiAgentOrchestrator                                                   *)
(***************************************************************************)
\* register_agent that rebuilds the dict from the new agent alone (faulty variant)
RegisterDropsOthers(reg, agent) ==
    [t \in {agent.agent_type} |-> agent]

\* register_agent:  self.agents[agent.agent_type] = agent
Register(reg, agent) ==
    [t \in DOMAIN reg \cup {agent.agent_type} |->
        IF t = agent.agent_type THEN agent ELSE reg[t]]

\* the dict returned when no agent is found
NoAgentResult ==
    [response |-> TxtNoAgentAvailable, success |-> FALSE, error |-> TxtNoAgentConfigured]

\* one call of route_query: what _select_agent returned (None when it was
\* not called), the Agent.invoke calls made, and the dict returned
RouteOutcome(selected_type, invocations) ==
    [selected |-> selected_type,
     invoked |-> invocations,
     result |-> IF invocations = <<>> THEN NoAgentResult
                ELSE invocations[Len(invocations)].result]

\* route_query that trusts the keyword selection over the explicit type (faulty variant)
RouteKeywordFirst(reg, query, agent_type, history, exec) ==
    LET selected_type == SelectAgent(query) IN
    IF selected_type \in DOMAIN reg
    THEN RouteOutcome(selected_type,
                      <<Invocation(reg[selected_type], query, history, exec)>>)
    ELSE IF agent_type # None /\ agent_type \in DOMAIN reg
    THEN RouteOutcome(None, <<Invocation(reg[agent_type], query, history, exec)>>)
    ELSE IF GENERAL \in DOMAIN reg
    THEN RouteOutcome(selected_type, <<Invocation(reg[GENERAL], query, history, exec)>>)
    ELSE RouteOutcome(selected_type, <<>>)

\* route_query whose fallback is any registered agent instead of general (faulty variant)
RouteFallbackAny(reg, query, agent_type, history, exec) ==
    IF agent_type # None /\ agent_type \in DOMAIN reg
    THEN RouteOutcome(None, <<Invocation(reg[agent_type], query, history, exec)>>)
    ELSE LET selected_type == SelectAgent(query) IN
         IF selected_type \in DOMAIN reg
         THEN RouteOutcome(selected_type,
                           <<Invocation(reg[selected_type], query, history, exec)>>)
         ELSE IF DOMAIN reg # {}
         THEN RouteOutcome(selected_type,
                           <<Invocation(reg[CHOOSE t \in DOMAIN reg : TRUE],
                                        query, history, exec)>>)
         ELSE RouteOutcome(selected_type, <<>>)

\* route_query that indexes the registry instead of using get (faulty variant)
RouteIndexes(reg, query, agent_type, history, exec) ==
    IF agent_type # None /\ agent_type \in DOMAIN reg
    THEN RouteOutcome(None, <<Invocation(reg[agent_type], query, history, exec)>>)
    ELSE LET selected_type == SelectAgent(query) IN
         IF selected_type \in DOMAIN reg
         THEN RouteOutcome(selected_type,
                           <<Invocation(reg[selected_type], query, history, exec)>>)
         ELSE IF GENERAL \in DOMAIN reg
         THEN RouteOutcome(selected_type,
                           <<Invocation(reg[GENERAL], query, history, exec)>>)
         ELSE [selected |-> selected_type, invoked |-> <<>>,
               result |-> Raised(<<"K", "e", "y", "E", "r", "r", "o", "r">>)]

\* route_query
RouteQueryResult(reg, query, agent_type, history, exec) ==
    IF agent_type # None /\ agent_type \in DOMAIN reg
    THEN RouteOutcome(None, <<Invocation(reg[agent_type], query, history, exec)>>)
    ELSE LET selected_type == SelectAgent(query) IN
         IF selected_type \in DOMAIN reg
         THEN RouteOutcome(selected_type,
                           <<Invocation(reg[selected_type], query, history, exec)>>)
         ELSE IF GENERAL \in DOMAIN reg
         THEN RouteOutcome(selected_type,
                           <<Invocation(reg[GENERAL], query, history, exec)>>)
         ELSE RouteOutcome(selected_type, <<>>)

NoCall == [made |-> FALSE]
NoReturn == [returned |-> FALSE]

InitOrchestrator ==
    /\ agents = [t \in {} |-> None]
    /\ created = 0
    /\ regLog = <<>>
    /\ rpc = "idle"
    /\ call = NoCall
    /\ selected = None
    /\ invoked = <<>>
    /\ ret = NoReturn

\* Agent(agent_type, ...) is constructed and handed to register_agent
RegisterAgent(t) ==
    /\ rpc = "idle"
    /\ created < MaxAgents
    /\ LET agent == [id |-> created + 1, agent_type |-> t] IN
       /\ agents' = Register(agents, agent)
       /\ regLog' = Append(regLog, agent)
    /\ created' = created + 1
    /\ UNCHANGED <<rpc, call, selected, invoked, ret, svars, xvars>>

\* a caller awaits route_query(query, agent_type, history)
RouteQuery(query, agent_type, history, exec) ==
    /\ rpc = "idle"
    /\ LET r == RouteQueryResult(agents, query, agent_type, history, exec) IN
       /\ selected' = r.selected
       /\ invoked' = r.invoked
       /\ ret' = r.result
    /\ call' = [made |-> TRUE, query |-> query, agent_type |-> agent_type,
                history |-> history]
    /\ rpc' = "returned"
    /\ UNCHANGED <<agents, created, regLog, svars, xvars>>

\* the caller takes the result; the call frame is gone
CallerResumes ==
    /\ rpc = "returned"
    /\ rpc' = "idle"
    /\ call' = NoCall
    /\ selected' = None
    /\ invoked' = <<>>
    /\ ret' = NoReturn
    /\ UNCHANGED <<agents, created, regLog, svars, xvars>>

(***************************************************************************)
(* Tool loading: load_mcp_tools() and MCPClientManager                      *)
(* (src/core/mcp/client.py).  A server is known by its number; the tools it *)
(* lists are bound to the session they were loaded through.                 *)
(***************************************************************************)
Servers == 1..MaxServers

\* what langchain_load_mcp_tools(session) returns for a server that answers
ToolsOf(id) ==
    IF id % 3 = 1 THEN <<[server |-> id, name |-> "a"], [server |-> id, name |-> "b"]>>
    ELSE IF id % 3 = 2 THEN <<[server |-> id, name |-> "a"]>>
    ELSE <<>>

Client(id) == [kind |-> "client", server |-> id]
Session(id) == [kind |-> "session", server |-> id]

\* how the body of the loop ends for one server: "nourl" is the KeyError of
\* server_config["url"], raised before the try; the others name the await
\* inside the try that raises
ConnectOutcomes == {"ok", "nourl", "connect", "session", "initialize", "tools"}

\* the try block failing makes the manager forget the earlier servers' tools
\* (faulty variant)
ConnectResultDropsOnFailure(m, id, outcome) ==
    IF outcome = "ok"
    THEN [tools |-> m.tools \o ToolsOf(id),
          sessions |-> Append(m.sessions, id),
          opened |-> m.opened \cup {Client(id), Session(id)}]
    ELSE [tools |-> <<>>, sessions |-> m.sessions, opened |-> m.opened]

\* the try block of __aenter__ for one server and its except branch:
\* m is the manager (tools, sessions) with the open connections and sessions
ConnectResult(m, id, outcome) ==
    [tools |-> IF outcome = "ok" THEN m.tools \o ToolsOf(id) ELSE m.tools,
     sessions |-> IF outcome = "ok" THEN Append(m.sessions, id) ELSE m.sessions,
     opened |-> m.opened
                \cup (IF outcome \in {"ok", "session", "initialize", "tools"}
                      THEN {Client(id)} ELSE {})
                \cup (IF outcome \in {"ok", "initialize", "tools"}
                      THEN {Session(id)} ELSE {})]

\* the pairs in the order they were tracked (faulty variant)
ReversedKeepsOrder(pairs) == pairs

\* reversed(self.sessions)
Reversed(pairs) == [i \in 1..Len(pairs) |-> pairs[Len(pairs) + 1 - i]]

\* how one  await asyncio.wait_for(x.__aexit__(...), timeout=1.0)  ends
CloseOutcomes == {"ok", "error", "timeout"}

\* the configuration file: absent, not parseable, or a list of servers
RECURSIVE ServerLists(_)
ServerLists(n) ==
    IF n = 0 THEN {<<>>}
    ELSE LET shorter == ServerLists(n - 1)
         IN  shorter \cup
             {Append(l, [id |-> i, enabled |-> e]) :
                l \in {x \in shorter : Len(x) = n - 1},
                i \in Servers, e \in BOOLEAN}

DistinctIds(l) == \A i, j \in 1..Len(l) : i # j => l[i].id # l[j].id

McpConfigs ==
    {[file |-> "missing", servers |-> <<>>], [file |-> "malformed", servers |-> <<>>]}
    \cup {[file |-> "ok", servers |-> l] :
            l \in {x \in ServerLists(MaxServers) : DistinctIds(x)}}

\* [s for s in mcp_servers if s.get("enabled", True)]
IsEnabled(s) == s.enabled
EnabledServers(servers) == SelectSeq(servers, IsEnabled)

InitMcp ==
    /\ mpc = "idle"
    /\ enabled_servers = <<>>
    /\ srv = 0
    /\ mgr_tools = <<>>
    /\ mgr_sessions = <<>>
    /\ opened = {}
    /\ attempts = <<>>
    /\ closing = <<>>
    /\ closeLog = <<>>
    /\ loaded = <<>>

\* load_mcp_tools() is called and runs up to the loop of __aenter__, or returns
LoadMcpTools(config, libs) ==
    /\ mpc = "idle"
    /\ IF config.file = "ok" /\ EnabledServers(config.servers) # <<>> /\ libs
       THEN /\ mpc' = "entering"
            /\ enabled_servers' = EnabledServers(config.servers)
            /\ srv' = 1
       ELSE /\ mpc' = "returned"
            /\ enabled_servers' = IF config.file = "ok"
                                  THEN EnabledServers(config.servers) ELSE <<>>
            /\ srv' = 0
    /\ loaded' = <<>>
    /\ UNCHANGED <<mgr_tools, mgr_sessions, opened, attempts, closing, closeLog>>
    /\ UNCHANGED <<ovars, svars, uvars, gvars, lvars, tvars>>

\* one pass of the loop of __aenter__; the KeyError leaves __aenter__ and is
\* caught by load_mcp_tools(), which returns [] without entering __aexit__
ConnectServer(outcome) ==
    /\ mpc = "entering"
    /\ srv <= Len(enabled_servers)
    /\ attempts' = Append(attempts, [server |-> enabled_servers[srv].id,
                                     outcome |-> outcome])
    /\ IF outcome = "nourl"
       THEN /\ mpc' = "returned"
            /\ loaded' = <<>>
            /\ UNCHANGED <<srv, mgr_tools, mgr_sessions, opened>>
       ELSE LET m == ConnectResult([tools |-> mgr_tools, sessions |-> mgr_sessions,
                                    opened |-> opened],
                                   enabled_servers[srv].id, outcome)
            IN  /\ mgr_tools' = m.tools
                /\ mgr_sessions' = m.sessions
                /\ opened' = m.opened
                /\ srv' = srv + 1
                /\ UNCHANGED <<mpc, loaded>>
    /\ UNCHANGED <<enabled_servers, closing, closeLog>>
    /\ UNCHANGED <<ovars, svars, uvars, gvars, lvars, tvars>>

\* __aenter__ returns self.tools; the body of the with statement copies the
\* list and returns, which enters __aexit__
EnterReturns ==
    /\ mpc = "entering"
    /\ srv > Len(enabled_servers)
    /\ IF mgr_sessions = <<>>
       THEN /\ mpc' = "returned"
            /\ loaded' = mgr_tools
            /\ UNCHANGED closing
       ELSE /\ mpc' = "exiting"
            /\ closing' = Reversed(mgr_sessions)
            /\ UNCHANGED loaded
    /\ UNCHANGED <<enabled_servers, srv, mgr_tools, mgr_sessions, opened, attempts,
                   closeLog>>
    /\ UNCHANGED <<ovars, svars, uvars, gvars, lvars, tvars>>

\* one pass of the loop of __aexit__: the session, then the connection
ClosePair(s_out, c_out) ==
    /\ mpc = "exiting"
    /\ closing # <<>>
    /\ LET id == Head(closing)
       IN  /\ closeLog' = closeLog \o <<[what |-> Session(id), outcome |-> s_out],
                                        [what |-> Client(id), outcome |-> c_out]>>
           /\ opened' = (opened \ (IF s_out = "ok" THEN {Session(id)} ELSE {}))
                            \ (IF c_out = "ok" THEN {Client(id)} ELSE {})
    /\ closing' = Tail(closing)
    /\ UNCHANGED <<mpc, enabled_servers, srv, mgr_tools, mgr_sessions, attempts, loaded>>
    /\ UNCHANGED <<ovars, svars, uvars, gvars, lvars, tvars>>

\* self.sessions.clear(); __aexit__ returns and load_mcp_tools() returns the copy
ExitReturns ==
    /\ mpc = "exiting"
    /\ closing = <<>>
    /\ mgr_sessions' = <<>>
    /\ loaded' = mgr_tools
    /\ mpc' = "returned"
    /\ UNCHANGED <<enabled_servers, srv, mgr_tools, opened, attempts, closing, closeLog>>
    /\ UNCHANGED <<ovars, svars, uvars, gvars, lvars, tvars>>

NextMcp ==
    \/ \E c \in McpConfigs, l \in BOOLEAN : LoadMcpTools(c, l)
    \/ \E o \in ConnectOutcomes : ConnectServer(o)
    \/ EnterReturns
    \/ \E s \in CloseOutcomes, c \in CloseOutcomes : ClosePair(s, c)
    \/ ExitReturns

(***************************************************************************)
(* URL normalisation in __aenter__ (src/core/mcp/client.py).                *)
(***************************************************************************)
SlashSse == <<"/", "s", "s", "e">>
SlashMcp == <<"/", "m", "c", "p">>

\* s.rstrip(c)
RECURSIVE RStrip(_, _)
RStrip(s, c) ==
    IF s # <<>> /\ s[Len(s)] = c THEN RStrip(SubSeq(s, 1, Len(s) - 1), c) ELSE s

\* s.endswith(suffix)
EndsWith(s, suffix) ==
    /\ Len(suffix) <= Len(s)
    /\ SubSeq(s, Len(s) - Len(suffix) + 1, Len(s)) = suffix

\* final_url as the three statements under "# Normalize URL" compute it
NormalizeUrl(url) ==
    LET stripped == RStrip(url, "/")
        no_sse == IF EndsWith(stripped, SlashSse)
                  THEN SubSeq(stripped, 1, Len(stripped) - 4)
                  ELSE stripped
    IN  IF ~EndsWith(no_sse, SlashMcp)
        THEN RStrip(no_sse, "/") \o SlashMcp
        ELSE no_sse

\* the URLs of the configuration: a host followed by path segments
UrlHost == <<"h">>
UrlSegments == {<<"/">>, SlashSse, SlashMcp}

RECURSIVE UrlsOf(_)
UrlsOf(n) ==
    IF n = 0 THEN {UrlHost}
    ELSE LET shorter == UrlsOf(n - 1)
         IN  shorter \cup {u \o g : u \in shorter, g \in UrlSegments}

Urls == UrlsOf(MaxSegments)

InitUrl ==
    /\ server_url = <<>>
    /\ final_url = <<>>

\* the loop of __aenter__ reads a server's url and normalises it
NormalizeServerUrl(url) ==
    /\ server_url' = url
    /\ final_url' = NormalizeUrl(url)
    /\ UNCHANGED <<ovars, svars, mvars, gvars, lvars, tvars>>

NextUrl == \E u \in Urls : NormalizeServerUrl(u)

(***************************************************************************)
(* The retrieval engine: EnhancedRAGSystem (src/core/rag/enhanced_rag.py).  *)
(* A chunk remembers the source document it was cut from; relevance scores  *)
(* are hundredths, and the vector store answers a query with the scores it  *)
(* gives to its chunks.                                                     *)
(***************************************************************************)
RetrievalK == 5         \* settings.retrieval_k
ScoreThreshold == 70    \* settings.retrieval_score_threshold, 0.7

Scores == {69, 70, 90}

\* k as passed to retrieve(): 0 stands for None too,  k or settings.retrieval_k
\* treats both alike
RequestedK == {0, 1, 2, RetrievalK + 1}
EffectiveK(k) == IF k = 0 THEN RetrievalK ELSE k

\* self.text_splitter.split_documents(documents): the chunks of each document
\* in turn; counts[d] is the number of chunks the d-th document is cut into
RECURSIVE SplitDocuments(_, _)
SplitDocuments(first, counts) ==
    IF counts = <<>> THEN <<>>
    ELSE [i \in 1..Head(counts) |-> [doc |-> first]]
         \o SplitDocuments(first + 1, Tail(counts))

\* for i, chunk in enumerate(chunks): chunk_index, total_chunks, doc_id
AddMetadata(chunks, doc_id) ==
    [i \in 1..Len(chunks) |->
        [doc |-> chunks[i].doc,
         chunk_index |-> i - 1,
         total_chunks |-> Len(chunks),
         doc_id |-> doc_id]]

\* the chunks of the store by falling score, earlier chunks first among equals
RECURSIVE RankFrom(_, _)
RankFrom(scores, left) ==
    IF left = {} THEN <<>>
    ELSE LET best == CHOOSE i \in left :
                        \A j \in left : \/ scores[i] > scores[j]
                                        \/ scores[i] = scores[j] /\ i <= j
         IN  <<[chunk |-> best, score |-> scores[best]]>>
             \o RankFrom(scores, left \ {best})

Ranked(scores) == RankFrom(scores, DOMAIN scores)

Take(s, n) == SubSeq(s, 1, IF n < Len(s) THEN n ELSE Len(s))

AtOrAboveThreshold(r) == r.score >= ScoreThreshold

\* self.retriever.invoke(query): search_type "similarity_score_threshold"
\* with k and score_threshold from the settings
RetrieverInvoke(scores) ==
    Take(SelectSeq(Ranked(scores), AtOrAboveThreshold), RetrievalK)

\* self.vector_store.similarity_search_with_relevance_scores(query, k=k)
SimilaritySearchWithRelevanceScores(scores, k) == Take(Ranked(scores), k)

\* retrieve(query, k) of an available engine whose retriever does not raise
RetrieveResult(scores, k) == Take(RetrieverInvoke(scores), EffectiveK(k))

\* retrieve_with_scores(query, k), likewise
RetrieveWithScoresResult(scores, k) ==
    SimilaritySearchWithRelevanceScores(scores, EffectiveK(k))

\* the scores the vector store gives to its n chunks for one query: one score
\* for the chunks at odd positions and one for those at even positions
ScoreLists(n) ==
    {[i \in 1..n |-> IF i % 2 = 1 THEN a ELSE b] : a \in Scores, b \in Scores}

NoMetadatas == [given |-> FALSE, len |-> 0]
Metadatas(n) == [given |-> TRUE, len |-> n]

\* the call in progress: op, its arguments, the number of stored chunks when
\* it was made, whether it reached a backend (splitter, vector store,
\* retriever or model), and which backend of add_documents raised
NoRagCall ==
    [op |-> None, k |-> 0, ndocs |-> 0, metadatas |-> NoMetadatas, store_before |-> 0,
     backend |-> FALSE, fail |-> "none"]
RagCall(op, k, n, metas, backend) ==
    [op |-> op, k |-> k, ndocs |-> n, metadatas |-> metas, store_before |-> Len(store),
     backend |-> backend, fail |-> "none"]

TxtRagNotAvailable == TxtRagUnavailable \o <<".">>
TxtNoAnswer ==
    <<"N", "o", " ", "a", "n", "s", "w", "e", "r", " ", "g", "e", "n", "e", "r",
      "a", "t", "e", "d", ".">>
TxtErrorProcessing ==
    <<"E", "r", "r", "o", "r", " ", "p", "r", "o", "c", "e", "s", "s", "i", "n", "g",
      " ", "q", "u", "e", "r", "y", ":", " ">>

\* what a call returns: the fields of the dict, the list, the string or the
\* bool (as success) that the operation returns
RagFailure == [success |-> FALSE, documents_added |-> 0, chunks_created |-> 0,
               results |-> <<>>, answer |-> <<>>, error |-> <<>>, available |-> FALSE]
RagError(cause) == [RagFailure EXCEPT !.error = cause]
RagResults(results) == [RagFailure EXCEPT !.success = TRUE, !.results = results]
RagAnswer(text) == [RagFailure EXCEPT !.success = TRUE, !.answer = text]

\* the chunk counts split_documents can produce for the documents of one call
RECURSIVE CountLists(_)
CountLists(n) ==
    IF n = 0 THEN {<<>>}
    ELSE LET shorter == CountLists(n - 1)
         IN  shorter \cup {Append(l, c) : l \in {x \in shorter : Len(x) = n - 1},
                                          c \in 0..MaxChunksPerDoc}

DocIds == {None, "doc-1"}

\* what can raise inside add_documents: the splitter, or the vector store
AddFailures == {"none", "split", "index"}

MetadataLists == {NoMetadatas} \cup {Metadatas(n) : n \in 0..MaxDocs}

InitRag ==
    /\ store = <<>>
    /\ ndocs = 0
    /\ rag_call = NoRagCall
    /\ rag_ret = RagFailure

\* add_documents(documents, doc_id)
AddDocumentsBody(op, counts, doc_id, metas, fail) ==
    /\ rag_call = NoRagCall
    /\ Len(counts) <= MaxDocs - ndocs
    /\ rag_call' = [RagCall(op, 0, Len(counts), metas, ragAvailable)
                        EXCEPT !.fail = IF ragAvailable THEN fail ELSE "none"]
    /\ IF ~ragAvailable
       THEN /\ rag_ret' = RagError(TxtRagUnavailable)
            /\ UNCHANGED <<store, ndocs>>
       ELSE IF fail # "none"
       THEN /\ rag_ret' = RagError(TxtBoom)
            /\ UNCHANGED <<store, ndocs>>
       ELSE LET chunks == AddMetadata(SplitDocuments(ndocs + 1, counts), doc_id)
            IN  /\ store' = store \o chunks
                /\ ndocs' = ndocs + Len(counts)
                /\ rag_ret' = [RagFailure EXCEPT !.success = TRUE,
                                                 !.documents_added = Len(counts),
                                                 !.chunks_created = Len(chunks)]
    /\ UNCHANGED <<ovars, svars, mvars, uvars, lvars, tvars>>

AddDocuments(counts, doc_id, fail) ==
    AddDocumentsBody("add_documents", counts, doc_id, NoMetadatas, fail)

\* the list comprehension of add_text:  metadatas[i] if metadatas else {}
\* raises IndexError when a non-empty metadata list is shorter than the texts
TextsToDocuments(ntexts, metas) ==
    IF metas.given /\ metas.len > 0 /\ metas.len < ntexts THEN "IndexError" ELSE "ok"

\* add_text(texts, metadatas): one Document per text, then add_documents
AddText(counts, metas, fail) ==
    IF ragAvailable /\ TextsToDocuments(Len(counts), metas) # "ok"
    THEN /\ rag_call = NoRagCall
         /\ Len(counts) <= MaxDocs - ndocs
         /\ fail = "none"
         /\ rag_call' = RagCall("add_text", 0, Len(counts), metas, FALSE)
         /\ rag_ret' = RagError(TxtIndexError)
         /\ UNCHANGED <<store, ndocs>>
         /\ UNCHANGED <<ovars, svars, mvars, uvars, lvars, tvars>>
    ELSE AddDocumentsBody("add_text", counts, None, metas, fail)

\* retrieve(query, k); fail: the retriever raises
Retrieve(scores, k, fail) ==
    /\ rag_call = NoRagCall
    /\ rag_call' = RagCall("retrieve", k, 0, NoMetadatas, ragAvailable)
    /\ rag_ret' = IF ~ragAvailable \/ fail THEN RagResults(<<>>)
                  ELSE RagResults(RetrieveResult(scores, k))
    /\ UNCHANGED <<store, ndocs>>
    /\ UNCHANGED <<ovars, svars, mvars, uvars, lvars, tvars>>

\* retrieve_with_scores(query, k); fail: the vector store raises
RetrieveWithScores(scores, k, fail) ==
    /\ rag_call = NoRagCall
    /\ rag_call' = RagCall("retrieve_with_scores", k, 0, NoMetadatas, ragAvailable)
    /\ rag_ret' = IF ~ragAvailable \/ fail THEN RagResults(<<>>)
                  ELSE RagResults(RetrieveWithScoresResult(scores, k))
    /\ UNCHANGED <<store, ndocs>>
    /\ UNCHANGED <<ovars, svars, mvars, uvars, lvars, tvars>>

\* how the chain of query_with_history ends: with an answer, with a result
\* that has no "answer" key, or by raising
ChainOutcomes == {"answer", "noanswer", "raise"}

\* query_with_history without the availability test (faulty variant)
QueryWithHistoryUnguarded(available, outcome) ==
    [backend |-> TRUE,
     answer |-> IF outcome = "answer" THEN TxtOk
                ELSE IF outcome = "noanswer" THEN TxtNoAnswer
                ELSE TxtErrorProcessing \o TxtBoom]

\* query_with_history(query, session_id, llm, history_manager): the string
\* it returns, and whether the chain was run
QueryWithHistoryResult(available, outcome) ==
    IF ~available THEN [backend |-> FALSE, answer |-> TxtRagNotAvailable]
    ELSE [backend |-> TRUE,
          answer |-> IF outcome = "answer" THEN TxtOk
                     ELSE IF outcome = "noanswer" THEN TxtNoAnswer
                     ELSE TxtErrorProcessing \o TxtBoom]

QueryWithHistory(outcome) ==
    /\ rag_call = NoRagCall
    /\ LET r == QueryWithHistoryResult(ragAvailable, outcome)
       IN  /\ rag_call' = RagCall("query_with_history", 0, 0, NoMetadatas, r.backend)
           /\ rag_ret' = RagAnswer(r.answer)
    /\ UNCHANGED <<store, ndocs>>
    /\ UNCHANGED <<ovars, svars, mvars, uvars, lvars, tvars>>

\* get_collection_stats(); fail: collection.count() raises
GetCollectionStats(fail) ==
    /\ rag_call = NoRagCall
    /\ rag_call' = RagCall("get_collection_stats", 0, 0, NoMetadatas, ragAvailable)
    /\ rag_ret' = IF ~ragAvailable THEN RagFailure
                  ELSE IF fail THEN [RagError(TxtBoom) EXCEPT !.available = TRUE]
                  ELSE [RagFailure EXCEPT !.success = TRUE, !.available = TRUE,
                                          !.documents_added = Len(store)]
    /\ UNCHANGED <<store, ndocs>>
    /\ UNCHANGED <<ovars, svars, mvars, uvars, lvars, tvars>>

\* clear_collection(); fail: the delete raises
ClearCollection(fail) ==
    /\ rag_call = NoRagCall
    /\ rag_call' = RagCall("clear_collection", 0, 0, NoMetadatas, ragAvailable)
    /\ IF ragAvailable /\ ~fail
       THEN /\ store' = <<>>
            /\ rag_ret' = [RagFailure EXCEPT !.success = TRUE]
       ELSE /\ rag_ret' = RagFailure
            /\ UNCHANGED store
    /\ UNCHANGED ndocs
    /\ UNCHANGED <<ovars, svars, mvars, uvars, lvars, tvars>>

\* the caller of the engine takes the result
RagCallerResumes ==
    /\ rag_call # NoRagCall
    /\ rag_call' = NoRagCall
    /\ rag_ret' = RagFailure
    /\ UNCHANGED <<store, ndocs>>
    /\ UNCHANGED <<ovars, svars, mvars, uvars, lvars, tvars>>

NextRag ==
    \/ \E c \in CountLists(MaxDocs), d \in DocIds, f \in AddFailures : AddDocuments(c, d, f)
    \/ \E c \in CountLists(MaxDocs), m \in MetadataLists, f \in AddFailures :
          AddText(c, m, f)
    \/ \E sc \in ScoreLists(Len(store)), k \in RequestedK, f \in BOOLEAN :
          Retrieve(sc, k, f)
    \/ \E sc \in ScoreLists(Len(store)), k \in RequestedK, f \in BOOLEAN :
          RetrieveWithScores(sc, k, f)
    \/ \E o \in ChainOutcomes : QueryWithHistory(o)
    \/ \E f \in BOOLEAN : GetCollectionStats(f)
    \/ \E f \in BOOLEAN : ClearCollection(f)
    \/ RagCallerResumes

(***************************************************************************)
(* The token-usage utilities: extract_token_usage and calculate_cost        *)
(* (src/utils/token_usage.py).  Prices are cents per million tokens, so a   *)
(* cost before rounding is a whole number of 1e-8 dollars; the cost         *)
(* returned, round(total_cost, 6), is a whole number of micro-dollars.      *)
(***************************************************************************)
Price(p, c) == [prompt |-> p, completion |-> c]

\* OPENAI_PRICING, ANTHROPIC_PRICING, GROQ_PRICING: the entry of a model, or
\* the "default" entry of the table
OpenAIPricing(model) ==
    CASE model = "gpt-4o" -> Price(250, 1000)
      [] model = "gpt-4o-mini" -> Price(15, 60)
      [] model \in {"gpt-4-turbo", "gpt-4-turbo-preview"} -> Price(1000, 3000)
      [] model = "gpt-4" -> Price(3000, 6000)
      [] model = "gpt-3.5-turbo" -> Price(50, 150)
      [] model = "gpt-3.5-turbo-16k" -> Price(300, 400)
      [] OTHER -> Price(100, 200)

AnthropicPricing(model) ==
    CASE model \in {"claude-3-5-sonnet-20241022", "claude-3-5-sonnet",
                    "claude-3-sonnet-20240229"} -> Price(300, 1500)
      [] model = "claude-3-opus-20240229" -> Price(1500, 7500)
      [] model = "claude-3-haiku-20240307" -> Price(25, 125)
      [] OTHER -> Price(300, 1500)

GroqPricing(model) == Price(0, 0)

\* settings.llm_provider and getattr(settings, f"{provider}_model", None)
SettingsProvider == "openai"
SettingsModel(provider) ==
    CASE provider = "openai" -> "gpt-4-turbo-preview"
      [] provider = "anthropic" -> "claude-3-sonnet-20240229"
      [] provider = "gemini" -> "gemini-1.5-pro"
      [] provider = "ollama" -> "llama3.2"
      [] provider = "groq" -> "mixtral-8x7b-32768"
      [] OTHER -> None

\* the pricing entry calculate_cost settles on
PricingFor(model, provider) ==
    LET prov == IF provider = None THEN SettingsProvider ELSE provider
        mod == IF model = None THEN SettingsModel(prov) ELSE model
    IN  CASE prov = "openai" -> OpenAIPricing(mod)
          [] prov = "anthropic" -> AnthropicPricing(mod)
          [] prov = "groq" -> GroqPricing(mod)
          [] OTHER -> Price(100, 200)

\* total_cost in 1e-8 dollars
CostUnits(prompt_tokens, completion_tokens, model, provider) ==
    LET pricing == PricingFor(model, provider)
    IN  prompt_tokens * pricing.prompt + completion_tokens * pricing.completion

\* round(total_cost, 6) in micro-dollars: the nearest one; a cost half-way
\* between two is a float that lies on either side, so both are possible
RoundMicro(units) ==
    IF units % 100 = 50 THEN {units \div 100, units \div 100 + 1}
    ELSE IF units % 100 < 50 THEN {units \div 100}
    ELSE {units \div 100 + 1}

NoCost == [none |-> TRUE, micro |-> 0]
Cost(micro) == [none |-> FALSE, micro |-> micro]

\* calculate_cost that reports a cost of zero as None (faulty variant)
CalculateCostNoneWhenFree(prompt_tokens, completion_tokens, model, provider) ==
    IF CostUnits(prompt_tokens, completion_tokens, model, provider) = 0
    THEN {NoCost}
    ELSE {Cost(m) : m \in RoundMicro(CostUnits(prompt_tokens, completion_tokens,
                                               model, provider))}

\* calculate_cost: the values it can return
CalculateCost(prompt_tokens, completion_tokens, model, provider) ==
    IF prompt_tokens = 0 /\ completion_tokens = 0
    THEN {NoCost}
    ELSE {Cost(m) : m \in RoundMicro(CostUnits(prompt_tokens, completion_tokens,
                                               model, provider))}

TokenCounts == {0, 1, 10, 100000}
CostModels == {None, "gpt-4o", "gpt-4o-mini", "claude-3-haiku-20240307", "no-such-model"}
CostProviders == {None, "openai", "anthropic", "groq", "gemini", "acme"}

\* the shapes of the four attributes of a response that extract_token_usage
\* looks at.  response_metadata: absent, falsy (None or {}), a dict without
\* 'token_usage', one whose 'token_usage' is a dict with the counters (with
\* or without 'total_tokens'), an empty dict, or None.  usage_metadata:
\* absent, None, or an object with the three counters.  token_usage: absent,
\* not a dict, or a dict.  usage: absent, an object without prompt_tokens, or
\* an object with the three counters.
ResponseMetadataShapes == {"absent", "falsy", "no_block", "block", "block_no_total",
                           "block_empty", "block_none"}
UsageMetadataShapes == {"absent", "none", "object"}
TokenUsageShapes == {"absent", "not_dict", "dict"}
UsageShapes == {"absent", "no_counters", "object"}

Responses ==
    [response_metadata : ResponseMetadataShapes, usage_metadata : UsageMetadataShapes,
     token_usage : TokenUsageShapes, usage : UsageShapes]

Usage(p, c, t) ==
    [present |-> TRUE, prompt_tokens |-> p, completion_tokens |-> c, total_tokens |-> t]

\* the counters each attribute carries when it has them
BlockUsage == Usage(1, 2, 3)
UsageMetadataUsage == Usage(4, 5, 9)
TokenUsageUsage == Usage(6, 7, 13)
UsageUsage == Usage(8, 9, 17)

\* extract_token_usage: the dict it returns, NoUsage for None
ExtractTokenUsage(response) ==
    IF response.response_metadata = "block_none"
    THEN NoUsage    \* usage.get raises AttributeError: the except branch
    ELSE IF response.response_metadata \in {"block", "block_no_total"}
    THEN BlockUsage \* total_tokens defaults to prompt + completion
    ELSE IF response.response_metadata = "block_empty"
    THEN Usage(0, 0, 0)    \* usage.get(..., 0)
    ELSE IF response.usage_metadata = "object"
    THEN UsageMetadataUsage
    ELSE IF response.usage_metadata = "none"
    THEN Usage(0, 0, 0)    \* getattr(None, ..., 0)
    ELSE IF response.token_usage = "dict"
    THEN TokenUsageUsage
    ELSE IF response.usage = "object"
    THEN UsageUsage
    ELSE NoUsage

NoUsageCall ==
    [op |-> None, response |-> [response_metadata |-> "absent", usage_metadata |-> "absent",
                                token_usage |-> "absent", usage |-> "absent"],
     prompt_tokens |-> 0, completion_tokens |-> 0, model |-> None, provider |-> None]

NoUsageReturn == [cost |-> NoCost, usage |-> NoUsage]

InitLedger ==
    /\ usage_call = NoUsageCall
    /\ usage_ret = NoUsageReturn

CallExtractTokenUsage(response) ==
    /\ usage_call' = [NoUsageCall EXCEPT !.op = "extract_token_usage",
                                         !.response = response]
    /\ usage_ret' = [NoUsageReturn EXCEPT !.usage = ExtractTokenUsage(response)]
    /\ UNCHANGED <<ovars, svars, mvars, uvars, gvars, tvars>>

CallCalculateCost(prompt_tokens, completion_tokens, model, provider) ==
    /\ usage_call' = [NoUsageCall EXCEPT !.op = "calculate_cost",
                                         !.prompt_tokens = prompt_tokens,
                                         !.completion_tokens = completion_tokens,
                                         !.model = model, !.provider = provider]
    /\ \E cost \in CalculateCost(prompt_tokens, completion_tokens, model, provider) :
          usage_ret' = [NoUsageReturn EXCEPT !.cost = cost]
    /\ UNCHANGED <<ovars, svars, mvars, uvars, gvars, tvars>>

NextLedger ==
    \/ \E r \in Responses : CallExtractTokenUsage(r)
    \/ \E p \in TokenCounts, c \in TokenCounts, m \in CostModels, v \in CostProviders :
          CallCalculateCost(p, c, m, v)

(***************************************************************************)
(* The streaming chat endpoint: chat_stream.generate().                     *)
(* Each action runs the generator from one suspension point (an await or a  *)
(* yield) to the next one.                                                  *)
(***************************************************************************)
TxtDbDown == <<"d", "b", " ", "d", "o", "w", "n">>
\* the content of the i-th chunk of llm.astream when it has content
ChunkText(i) == IF i % 2 = 1 THEN <<"a">> ELSE <<"b", "c">>

\* f"data: {json.dumps({'type': 'content', 'content': content})}\n\n"
ContentEvent(c) ==
    [json |-> TRUE, keys |-> {"type", "content"}, type |-> "content",
     content |-> c, tools_used |-> {}, error |-> <<>>]

\* f"data: {json.dumps({'type': 'done', 'tools_used': tools_used})}\n\n"
DoneEvent(tools) ==
    [json |-> TRUE, keys |-> {"type", "tools_used"}, type |-> "done",
     content |-> <<>>, tools_used |-> tools, error |-> <<>>]

\* f"data: {json.dumps({'type': 'error', 'error': str(e)})}\n\n"
ErrorEvent(cause) ==
    [json |-> TRUE, keys |-> {"type", "error"}, type |-> "error",
     content |-> <<>>, tools_used |-> {}, error |-> cause]

\* f"data: {json.dumps({'error': 'RAG system not available'})}\n\n"
RagUnavailableEvent ==
    [json |-> TRUE, keys |-> {"error"}, type |-> None,
     content |-> <<>>, tools_used |-> {}, error |-> TxtRagUnavailable]

\* "data: [DONE]\n\n"
Sentinel ==
    [json |-> FALSE, keys |-> {}, type |-> None,
     content |-> <<>>, tools_used |-> {}, error |-> <<>>]

\* a Message row
MessageRow(role, content, tools, t) ==
    [role |-> role, content |-> content, tool_calls |-> tools, turn |-> t]

\* _load_conversation_history: the rows as LangChain messages, in order
RECURSIVE LoadHistory(_)
LoadHistory(rows) ==
    IF rows = <<>> THEN <<>>
    ELSE LET msg == Head(rows) IN
         (IF msg.role = "user" THEN <<HumanMessage(msg.content)>>
          ELSE IF msg.role = "assistant" THEN <<AIMessage(msg.content)>>
          ELSE <<>>) \o LoadHistory(Tail(rows))

\* AgentType(request.agent_type), None when absent or not a member
ParseAgentType(text) == IF text \in AgentType THEN text ELSE None

NoRequest == [mode |-> None, message |-> <<>>, agent_type |-> None]
NoConversation == [exists |-> FALSE, mode |-> None, title |-> None]

Modes == {"rag", "agent"}
RequestAgentTypes == {None, CODING, "bogus"}
StreamMessages == {QHello}

\* the suspension points of generate() at which it can be resumed or closed
Suspended ==
    {"initializing", "routing", "llm", "chars", "rag_unavailable",
     "done_sent", "sentinel_sent", "error_sent"}

InitStream ==
    /\ spc = "idle"
    /\ turn = 0
    /\ request = NoRequest
    /\ conversation = NoConversation
    /\ db = <<>>
    /\ gen_history = <<>>
    /\ full_response = <<>>
    /\ tools_used = {}
    /\ pending = <<>>
    /\ nchunks = 0
    /\ events = <<>>
    /\ cancelled = FALSE
    /\ ragAvailable \in BOOLEAN
    /\ engine = None

(***************************************************************************)
(* Concurrent requests to chat() and chat_stream(): each request is a task  *)
(* of one event loop, numbered in order of arrival, with its own database   *)
(* session; the tables and the agent registry are shared.                   *)
(***************************************************************************)
TitleLimit == 100    \* len(request.message) < 100

Requests == 1..MaxRequests

SessionIds == {"s1"}

\* a message of 100 characters
LongText == [i \in 1..TitleLimit |-> "x"]

RequestMessages == {TxtHi, LongText}

\* a request handler that has not started; one that has ended keeps its
\* conversation, whether it saved its user message, and how it ended
NoTask ==
    [pc |-> "idle", kind |-> None, mode |-> None, session_id |-> None, message |-> <<>>,
     conv |-> 0, history |-> <<>>, given |-> <<>>, engine |-> None, begun |-> FALSE,
     status |-> None]

InitTurns ==
    /\ tasks = [t \in Requests |-> NoTask]
    /\ convs = <<>>
    /\ msg_table = <<>>
    /\ nturns = 0
    /\ tool_loads = 0

Init ==
    /\ InitOrchestrator /\ InitStream /\ InitMcp /\ InitUrl /\ InitRag
    /\ InitLedger /\ InitTurns

\* the except branch that sends the terminator after the error event (faulty variant)
ExceptThenTerminator(evs, cause) == evs \o <<ErrorEvent(cause), Sentinel>>

\* the except branch up to its yield: the events after the error event
ExceptYield(evs, cause) == Append(evs, ErrorEvent(cause))

\* an exception reaches the except branch, which yields the error event
Except(cause) ==
    /\ events' = ExceptYield(events, cause)
    /\ spc' = "error_sent"

\* _save_message for the assistant followed by the yield of the done event;
\* outcome "commit": db.commit() raises, the row is not stored;
\* outcome "refresh": db.refresh() raises after the row was committed
SaveAssistantAndDone(outcome, text, tools) ==
    /\ db' = IF outcome = "commit" THEN db
             ELSE Append(db, MessageRow("assistant", text, tools, turn))
    /\ IF outcome = "ok"
       THEN /\ events' = Append(events, DoneEvent(tools))
            /\ spc' = "done_sent"
       ELSE Except(TxtDbDown)

SaveOutcomes == {"ok", "commit", "refresh"}

\* a request arrives; generate() runs up to  await _initialize_agents()
StreamBegin(mode, message, agent_type, fail) ==
    /\ spc \in {"idle", "closed"}
    /\ turn < MaxTurns
    /\ turn' = turn + 1
    /\ request' = [mode |-> mode, message |-> message, agent_type |-> agent_type]
    /\ full_response' = <<>>
    /\ tools_used' = {}
    /\ pending' = <<>>
    /\ nchunks' = 0
    /\ cancelled' = FALSE
    /\ call' = NoCall /\ selected' = None /\ invoked' = <<>> /\ ret' = NoReturn
    /\ conversation' =
          IF conversation.exists \/ fail = "conversation" THEN conversation
          ELSE [exists |-> TRUE, mode |-> mode, title |-> None]
    /\ gen_history' = IF fail \in {"conversation", "history"} THEN <<>> ELSE LoadHistory(db)
    /\ db' = IF fail \in {"none", "refresh"}
             THEN Append(db, MessageRow("user", message, {}, turn + 1))
             ELSE db
    /\ IF fail = "none"
       THEN /\ events' = <<>>
            /\ spc' = "initializing"
       ELSE /\ events' = ExceptYield(<<>>, TxtDbDown)
            /\ spc' = "error_sent"
    /\ engine' = None
    /\ UNCHANGED <<agents, created, regLog, rpc, ragAvailable, xvars>>

BeginFailures == {"none", "conversation", "history", "commit", "refresh"}

\* _initialize_agents(): when the registry is empty a general agent is built
\* and registered, unless building it fails
InitializeAgents(reg, n, agent_ok) ==
    IF DOMAIN reg = {} /\ agent_ok
    THEN Register(reg, [id |-> n + 1, agent_type |-> GENERAL])
    ELSE reg

\* _initialize_agents() returns; generate() runs on to its next suspension
AgentsInitialized(agent_ok, llm_ok) ==
    /\ spc = "initializing"
    /\ DOMAIN agents = {} => created < MaxAgents
    /\ agents' = InitializeAgents(agents, created, agent_ok)
    /\ created' = IF DOMAIN agents = {} /\ agent_ok THEN created + 1 ELSE created
    /\ regLog' = IF DOMAIN agents = {} /\ agent_ok
                 THEN Append(regLog, [id |-> created + 1, agent_type |-> GENERAL])
                 ELSE regLog
    /\ IF request.mode = "rag" /\ ~ragAvailable
       THEN /\ events' = Append(events, RagUnavailableEvent)
            /\ spc' = "rag_unavailable"
            /\ UNCHANGED engine
       ELSE IF request.mode = "agent" /\ DOMAIN agents' # {}
       THEN /\ spc' = "routing"
            /\ engine' = "orchestrator"
            /\ UNCHANGED events
       ELSE /\ engine' = "llm"
            /\ IF llm_ok
               THEN /\ spc' = "llm"
                    /\ UNCHANGED events
               ELSE Except(TxtBoom)
    /\ UNCHANGED <<rpc, call, selected, invoked, ret, turn, request, conversation,
                   db, gen_history, full_response, tools_used, pending, nchunks,
                   cancelled, ragAvailable, xvars>>

\* llm.astream yields a chunk; one with content is appended and emitted
LlmChunk(has_content) ==
    /\ spc = "llm"
    /\ nchunks < MaxChunks
    /\ nchunks' = nchunks + 1
    /\ IF has_content
       THEN /\ full_response' = full_response \o ChunkText(nchunks + 1)
            /\ events' = Append(events, ContentEvent(ChunkText(nchunks + 1)))
       ELSE UNCHANGED <<full_response, events>>
    /\ UNCHANGED <<ovars, spc, turn, request, conversation, db, gen_history, tools_used,
                   pending, cancelled, ragAvailable, engine, xvars>>

\* llm.astream raises
LlmRaises ==
    /\ spc = "llm"
    /\ Except(TxtBoom)
    /\ UNCHANGED <<ovars, turn, request, conversation, db, gen_history, full_response,
                   tools_used, pending, nchunks, cancelled, ragAvailable, engine, xvars>>

\* llm.astream is exhausted: the assistant message is saved, done is yielded
LlmEnds(outcome) ==
    /\ spc = "llm"
    /\ SaveAssistantAndDone(outcome, full_response, tools_used)
    /\ UNCHANGED <<ovars, turn, request, conversation, gen_history, full_response,
                   tools_used, pending, nchunks, cancelled, ragAvailable, engine, xvars>>

\* orchestrator.route_query returns; the first character is emitted, or the
\* empty response is saved
RouteReturns(exec, outcome) ==
    /\ spc = "routing"
    /\ LET r == RouteQueryResult(agents, request.message,
                                 ParseAgentType(request.agent_type),
                                 HistList(gen_history), exec)
           response_text == IF "response" \in DOMAIN r.result
                            THEN r.result.response ELSE <<>>
           tools == IF "tools_used" \in DOMAIN r.result
                    THEN r.result.tools_used ELSE {}
       IN  /\ call' = [made |-> TRUE, query |-> request.message,
                       agent_type |-> ParseAgentType(request.agent_type),
                       history |-> HistList(gen_history)]
           /\ selected' = r.selected
           /\ invoked' = r.invoked
           /\ ret' = r.result
           /\ tools_used' = tools
           /\ IF response_text = <<>>
              THEN /\ outcome \in SaveOutcomes
                   /\ SaveAssistantAndDone(outcome, full_response, tools)
                   /\ UNCHANGED <<full_response, pending>>
              ELSE /\ outcome = "ok"
                   /\ full_response' = full_response \o <<Head(response_text)>>
                   /\ events' = Append(events, ContentEvent(<<Head(response_text)>>))
                   /\ pending' = Tail(response_text)
                   /\ spc' = "chars"
                   /\ UNCHANGED db
    /\ UNCHANGED <<agents, created, regLog, rpc, turn, request, conversation,
                   gen_history, nchunks, cancelled, ragAvailable, engine, xvars>>

\* the character loop losing the character after the one it emits
\* (faulty variant)
NextCharSkipsOne ==
    /\ spc = "chars"
    /\ pending # <<>>
    /\ full_response' = full_response \o <<Head(pending)>>
    /\ events' = Append(events, ContentEvent(<<Head(pending)>>))
    /\ pending' = IF Len(pending) >= 2 THEN Tail(Tail(pending)) ELSE <<>>
    /\ UNCHANGED <<ovars, spc, turn, request, conversation, db, gen_history, tools_used,
                   nchunks, cancelled, ragAvailable, engine, xvars>>

\* the next character of the agent's response is emitted
NextChar ==
    /\ spc = "chars"
    /\ pending # <<>>
    /\ full_response' = full_response \o <<Head(pending)>>
    /\ events' = Append(events, ContentEvent(<<Head(pending)>>))
    /\ pending' = Tail(pending)
    /\ UNCHANGED <<ovars, spc, turn, request, conversation, db, gen_history, tools_used,
                   nchunks, cancelled, ragAvailable, engine, xvars>>

\* all characters are emitted: the assistant message is saved, done is yielded
CharsEnd(outcome) ==
    /\ spc = "chars"
    /\ pending = <<>>
    /\ SaveAssistantAndDone(outcome, full_response, tools_used)
    /\ UNCHANGED <<ovars, turn, request, conversation, gen_history, full_response,
                   tools_used, pending, nchunks, cancelled, ragAvailable, engine, xvars>>

\* resumed after the done event: the terminator is yielded
SendTerminator ==
    /\ spc = "done_sent"
    /\ events' = Append(events, Sentinel)
    /\ spc' = "sentinel_sent"
    /\ UNCHANGED <<ovars, turn, request, conversation, db, gen_history, full_response,
                   tools_used, pending, nchunks, cancelled, ragAvailable, engine, xvars>>

\* resumed after the terminator, after the error event (db.rollback(), which
\* finds nothing uncommitted) or after the rag notice (return): generate() ends
GeneratorEnds ==
    /\ spc \in {"sentinel_sent", "error_sent", "rag_unavailable"}
    /\ spc' = "closed"
    /\ UNCHANGED <<ovars, turn, request, conversation, db, gen_history, full_response,
                   tools_used, pending, nchunks, events, cancelled, ragAvailable, engine, xvars>>

\* the client disconnects: the suspended generator is closed; GeneratorExit and
\* CancelledError are not Exceptions, so no branch of generate() runs
ClientDisconnects ==
    /\ spc \in Suspended
    /\ spc' = "closed"
    /\ cancelled' = TRUE
    /\ UNCHANGED <<ovars, turn, request, conversation, db, gen_history, full_response,
                   tools_used, pending, nchunks, events, ragAvailable, engine, xvars>>

NextStream ==
    \/ \E m \in Modes, q \in StreamMessages, t \in RequestAgentTypes, f \in BeginFailures :
          StreamBegin(m, q, t, f)
    \/ \E a \in BOOLEAN, l \in BOOLEAN : AgentsInitialized(a, l)
    \/ \E c \in BOOLEAN : LlmChunk(c)
    \/ LlmRaises
    \/ \E o \in SaveOutcomes : LlmEnds(o)
    \/ \E e \in ExecOutcomes, o \in SaveOutcomes : RouteReturns(e, o)
    \/ NextChar
    \/ \E o \in SaveOutcomes : CharsEnd(o)
    \/ SendTerminator
    \/ GeneratorEnds
    \/ ClientDisconnects

SpecStream == Init /\ [][NextStream]_vars

NextRoute ==
    \/ \E t \in AgentType : RegisterAgent(t)
    \/ \E q \in Queries, t \in AgentType \cup {None}, h \in Histories, e \in ExecOutcomes :
          RouteQuery(q, t, h, e)
    \/ CallerResumes

SpecRoute == Init /\ [][NextRoute]_vars

SpecMcp == Init /\ [][NextMcp]_vars

SpecUrl == Init /\ [][NextUrl]_vars

SpecRag == Init /\ [][NextRag]_vars

SpecLedger == Init /\ [][NextLedger]_vars

(***************************************************************************)
(* The request handlers chat() and chat_stream.generate() as tasks of one   *)
(* event loop.  An action runs one handler from one suspension point (an    *)
(* await that waits for the network) to the next; the database calls are    *)
(* synchronous and so belong to the step that reaches them.                 *)
(***************************************************************************)
Kinds == {"chat", "stream"}

\* a title that is not set: None, which  not conversation.title  treats
\* like the empty string
NoTitle == <<>>

ConversationRow(session_id, mode) ==
    [session_id |-> session_id, mode |-> mode, title |-> NoTitle]

\* _get_or_create_conversation that never looks the session up (faulty variant)
GetOrCreateConversationAlwaysNew(table, session_id, mode) ==
    [id |-> Len(table) + 1, table |-> Append(table, ConversationRow(session_id, mode))]

\* _get_or_create_conversation: the row's id and the table afterwards
GetOrCreateConversation(table, session_id, mode) ==
    LET found == {i \in 1..Len(table) : table[i].session_id = session_id}
    IN  IF found # {}
        THEN [id |-> CHOOSE i \in found : \A j \in found : i <= j, table |-> table]
        ELSE [id |-> Len(table) + 1,
              table |-> Append(table, ConversationRow(session_id, mode))]

\* _load_conversation_history: the rows of the conversation as messages
RECURSIVE LoadConversationHistory(_, _)
LoadConversationHistory(table, conversation_id) ==
    IF table = <<>> THEN <<>>
    ELSE LET row == Head(table)
             rest == LoadConversationHistory(Tail(table), conversation_id)
         IN  IF row.conv # conversation_id THEN rest
             ELSE IF row.role = "user" THEN <<HumanMessage(row.content)>> \o rest
             ELSE IF row.role = "assistant" THEN <<AIMessage(row.content)>> \o rest
             ELSE rest

\* _save_message whose commit went through; req is the request that saved it
SaveMessage(table, conversation_id, role, content, req) ==
    Append(table, [conv |-> conversation_id, role |-> role, content |-> content,
                   req |-> req])

\* the first lines of a handler with the user message saved before the
\* history is loaded (faulty variant)
BeginTurnSavesFirst(table, conversation_id, message, req) ==
    LET saved == SaveMessage(table, conversation_id, "user", message, req)
    IN  [history |-> LoadConversationHistory(saved, conversation_id), table |-> saved]

\* the first lines of a handler: the history is loaded, then the user message
\* is saved
BeginTurn(table, conversation_id, message, req) ==
    [history |-> LoadConversationHistory(table, conversation_id),
     table |-> SaveMessage(table, conversation_id, "user", message, req)]

\* the caller's history list after Agent.invoke built its messages from it:
\* messages = list(history) is a new list, the append does not reach the
\* caller's
HistoryAfterInvoke(history, query) == history

\* a handler that has ended
Ended(task, status) ==
    [NoTask EXCEPT !.pc = "done", !.conv = task.conv, !.begun = task.begun,
                   !.status = status]

\* a handler from the return of _initialize_agents() to its next suspension:
\* the engine it calls and the message list it gives to it
Engage(task, reg) ==
    IF task.mode = "rag" /\ ~ragAvailable
    THEN Ended(task, "unavailable")
    ELSE IF task.mode = "rag" /\ task.kind = "chat"
    THEN [task EXCEPT !.pc = "generating", !.engine = "retrieval"]
    ELSE IF task.mode = "agent" /\ DOMAIN reg # {}
    THEN [task EXCEPT !.pc = "generating", !.engine = "orchestrator",
                      !.given = BuildMessages(task.message, HistList(task.history)),
                      !.history = HistoryAfterInvoke(task.history, task.message)]
    ELSE [task EXCEPT !.pc = "generating", !.engine = "llm",
                      !.given = task.history \o <<HumanMessage(task.message)>>]

\* a request arrives; the handler runs up to the await inside
\* _initialize_agents(), or past it when the registry is not empty
TurnBegin(t, kind, mode, session_id, message, fail) ==
    /\ t = nturns + 1
    /\ nturns' = t
    /\ LET conv_row == GetOrCreateConversation(convs, session_id, mode)
           begin == BeginTurn(msg_table, conv_row.id, message, t)
           task == [NoTask EXCEPT !.kind = kind, !.mode = mode,
                                  !.session_id = session_id, !.message = message,
                                  !.conv = IF fail = "conversation" THEN 0
                                           ELSE conv_row.id]
       IN  /\ convs' = IF fail = "conversation" THEN convs ELSE conv_row.table
           /\ msg_table' = IF fail \in {"none", "refresh"} THEN begin.table ELSE msg_table
           /\ IF fail # "none"
              THEN /\ tasks' = [tasks EXCEPT ![t] = Ended(task, "failed")]
                   /\ UNCHANGED tool_loads
              ELSE LET saved == [task EXCEPT !.history = begin.history, !.begun = TRUE]
                   IN  IF DOMAIN agents = {}
                       THEN /\ tasks' = [tasks EXCEPT ![t] = [saved EXCEPT !.pc = "loading"]]
                            /\ tool_loads' = tool_loads + 1
                       ELSE /\ tasks' = [tasks EXCEPT ![t] = Engage(saved, agents)]
                            /\ UNCHANGED tool_loads
    /\ UNCHANGED <<ovars, svars, mvars, uvars, gvars, lvars>>

\* load_mcp_tools() returns to _initialize_agents(), which builds and
\* registers the general agent unless building it fails; the handler runs on
ToolsLoaded(t, agent_ok) ==
    /\ tasks[t].pc = "loading"
    /\ agent_ok => created < MaxAgents
    /\ LET agent == [id |-> created + 1, agent_type |-> GENERAL]
           reg == IF agent_ok THEN Register(agents, agent) ELSE agents
       IN  /\ agents' = reg
           /\ created' = IF agent_ok THEN created + 1 ELSE created
           /\ regLog' = IF agent_ok THEN Append(regLog, agent) ELSE regLog
           /\ tasks' = [tasks EXCEPT ![t] = Engage(tasks[t], reg)]
    /\ UNCHANGED <<rpc, call, selected, invoked, ret, svars, mvars, uvars, gvars, lvars,
                   convs, msg_table, nturns, tool_loads>>

\* how the engine's call ends: with a reply (the agent and the retrieval
\* engine fold their failures into the reply text), by raising (the model
\* called directly), or with the client gone (a stream)
GenerationOutcomes(task) ==
    {"ok"} \cup (IF task.engine = "llm" THEN {"raise"} ELSE {})
           \cup (IF task.kind = "stream" THEN {"disconnect"} ELSE {})

\* the engine returns; the handler saves the assistant message, chat() sets
\* the title, and the handler ends
GenerationReturns(t, outcome, save, title_ok) ==
    /\ tasks[t].pc = "generating"
    /\ outcome \in GenerationOutcomes(tasks[t])
    /\ outcome \in {"raise", "disconnect"} => save = "ok"
    /\ LET task == tasks[t]
           replied == outcome = "ok"
           sets_title == /\ task.kind = "chat"
                         /\ replied /\ save = "ok"
                         /\ convs[task.conv].title = NoTitle
                         /\ Len(task.message) < TitleLimit
       IN  /\ ~sets_title => title_ok
           /\ msg_table' = IF replied /\ save \in {"ok", "refresh"}
                           THEN SaveMessage(msg_table, task.conv, "assistant", TxtOk, t)
                           ELSE msg_table
           /\ convs' = IF sets_title /\ title_ok
                       THEN [convs EXCEPT ![task.conv].title = Take(task.message, TitleLimit)]
                       ELSE convs
           /\ tasks' = [tasks EXCEPT ![t] =
                          Ended(task, IF outcome = "disconnect" THEN "cancelled"
                                      ELSE IF outcome = "raise" \/ save # "ok" \/ ~title_ok
                                      THEN "failed"
                                      ELSE "ok")]
    /\ UNCHANGED <<ovars, svars, mvars, uvars, gvars, lvars, nturns, tool_loads>>

NextTurns ==
    \/ \E t \in Requests, kind \in Kinds, mode \in Modes, sid \in SessionIds,
          msg \in RequestMessages, f \in BeginFailures :
          TurnBegin(t, kind, mode, sid, msg, f)
    \/ \E t \in Requests, agent_ok \in BOOLEAN : ToolsLoaded(t, agent_ok)
    \/ \E t \in Requests, o \in {"ok", "raise", "disconnect"}, sv \in SaveOutcomes,
          title_ok \in BOOLEAN :
          GenerationReturns(t, o, sv, title_ok)

SpecTurns == Init /\ [][NextTurns]_vars

(***************************************************************************)
(* Properties of routing and of Agent.invoke, checked under SpecRoute.      *)
(***************************************************************************)
Returned == rpc = "returned"

ExplicitRegistered == call.agent_type # None /\ call.agent_type \in DOMAIN agents

\* the failure cause of one Agent.invoke call, <<>> when nothing failed
FailureCause(inv) ==
    IF inv.history.kind = "bad" THEN TxtNotIterable
    ELSE IF inv.exec.kind = "raise" THEN inv.exec.cause
    ELSE IF inv.exec.kind = "malformed" THEN TxtIndexError
    ELSE <<>>

\* C1: a route_query call with an explicit agent_type that is registered
\* invokes exactly that agent, once, with the query and history of the call,
\* and invokes no other agent, whatever cues the query contains.
C1_ExplicitRegisteredInvokesThatAgent ==
    (Returned /\ ExplicitRegistered) =>
        /\ Len(invoked) = 1
        /\ invoked[1].agent = agents[call.agent_type]
        /\ invoked[1].agent.agent_type = call.agent_type
        /\ invoked[1].query = call.query
        /\ invoked[1].history = call.history
        /\ ret = invoked[1].result

\* an explicit registered type was used although the query's keywords point to
\* another registered agent
C1_Witness ==
    /\ Returned /\ ExplicitRegistered
    /\ SelectAgent(call.query) # call.agent_type
    /\ SelectAgent(call.query) \in DOMAIN agents
    /\ Len(invoked) = 1

\* C2: without an explicit type the categories are tried in the order research,
\* coding, data_analysis on the lower-cased query and the first one with a cue
\* in it is selected, general when none has; "research how to debug a loop"
\* selects research.
C2_SelectionPriorityOrder ==
    (Returned /\ selected # None) =>
        LET ql == Lower(call.query)
            hasResearch == \E i \in 1..Len(ResearchCues) : Contains(ql, ResearchCues[i])
            hasCoding == \E i \in 1..Len(CodingCues) : Contains(ql, CodingCues[i])
            hasData == \E i \in 1..Len(DataCues) : Contains(ql, DataCues[i])
        IN  /\ hasResearch => selected = RESEARCH
            /\ (~hasResearch /\ hasCoding) => selected = CODING
            /\ (~hasResearch /\ ~hasCoding /\ hasData) => selected = DATA_ANALYSIS
            /\ (~hasResearch /\ ~hasCoding /\ ~hasData) => selected = GENERAL
            /\ call.query = QResearchDebug => selected = RESEARCH
            /\ call.query = QDebugData => selected = CODING
            /\ call.query = QHello => selected = GENERAL

\* "research how to debug a loop" was routed with no explicit type
C2_Witness ==
    /\ Returned
    /\ call.agent_type = None
    /\ call.query = QResearchDebug
    /\ Contains(Lower(call.query), <<"d", "e", "b", "u", "g">>)
    /\ selected = RESEARCH

\* C3: a call routed by auto-selection invokes the agent registered for the
\* selected type, else the agent registered for general, and when neither is
\* registered it invokes nothing and returns a failure result, also when agents
\* of other types are registered.
C3_AutoSelectionStaysInRegistry ==
    (Returned /\ selected # None) =>
        IF selected \in DOMAIN agents
        THEN Len(invoked) = 1 /\ invoked[1].agent = agents[selected]
        ELSE IF GENERAL \in DOMAIN agents
        THEN Len(invoked) = 1 /\ invoked[1].agent = agents[GENERAL]
        ELSE /\ invoked = <<>>
             /\ "raised" \notin DOMAIN ret
             /\ ret.success = FALSE

\* neither the selected type nor general is registered, another type is
C3_Witness ==
    /\ Returned
    /\ selected # None
    /\ selected \notin DOMAIN agents
    /\ GENERAL \notin DOMAIN agents
    /\ DOMAIN agents # {}
    /\ invoked = <<>>
    /\ ret.success = FALSE

\* C4: with an empty registry route_query does not raise, whatever the query and
\* the explicit type: it returns success=false with the error
\* 'No agent configured' and invokes nothing.
C4_EmptyRegistrySoftFailure ==
    (Returned /\ DOMAIN agents = {}) =>
        /\ "raised" \notin DOMAIN ret
        /\ ret.success = FALSE
        /\ ret.error = TxtNoAgentConfigured
        /\ invoked = <<>>

\* route_query returned on an empty registry for a call with an explicit type
C4_Witness ==
    /\ Returned
    /\ DOMAIN agents = {}
    /\ call.agent_type # None
    /\ ret.success = FALSE

\* C5: a call with an explicit agent type that is not registered is not
\* redirected: no agent (neither a keyword-selected one nor general) is invoked.
C5_UnregisteredExplicitNotRedirected ==
    (Returned /\ call.agent_type # None /\ call.agent_type \notin DOMAIN agents) =>
        invoked = <<>>

\* C6: the registry holds, for each type, the agent most recently registered
\* for that type and nothing else; registering for one type leaves the entries
\* of the other types as they were.
C6_RegistryHoldsLatestPerType ==
    \A t \in AgentType :
        LET regs == { i \in 1..Len(regLog) : regLog[i].agent_type = t } IN
        /\ (t \in DOMAIN agents) <=> (regs # {})
        /\ regs # {} =>
              agents[t] = regLog[CHOOSE i \in regs : \A j \in regs : j <= i]
        /\ DOMAIN agents \subseteq AgentType

\* a type was registered twice and holds the second agent
C6_Witness ==
    /\ Len(regLog) >= 2
    /\ regLog[1].agent_type = regLog[2].agent_type
    /\ agents[regLog[1].agent_type] = regLog[2]

\* C7: Agent.invoke never lets an exception out: when building the messages,
\* the generation or the post-processing fails, it returns success=false, a
\* response that embeds the failure cause, an empty tools_used and the error
\* detail.
C7_InvokeFailuresAreSoft ==
    \A i \in 1..Len(invoked) :
        LET inv == invoked[i]
            cause == FailureCause(inv)
        IN  /\ "raised" \notin DOMAIN inv.result
            /\ cause # <<>> =>
                  /\ inv.result.success = FALSE
                  /\ Contains(inv.result.response, cause)
                  /\ inv.result.tools_used = {}
                  /\ inv.result.error = cause
            /\ cause = <<>> => inv.result.success = TRUE

\* an invocation whose post-processing failed on a result without messages
C7_Witness ==
    /\ Returned
    /\ Len(invoked) = 1
    /\ invoked[1].exec.kind = "malformed"
    /\ invoked[1].history.kind # "bad"
    /\ invoked[1].result.success = FALSE

\* message i of an invocation's result carries token usage
CarriesUsage(m) ==
    \/ m.response_usage.present
    \/ m.usage_metadata.present /\ m.usage_metadata.has_prompt_tokens

\* the usage a carrying message contributes
UsageCarried(m) ==
    IF m.response_usage.present THEN m.response_usage
    ELSE [present |-> TRUE,
          prompt_tokens |-> m.usage_metadata.prompt_tokens,
          completion_tokens |-> m.usage_metadata.completion_tokens,
          total_tokens |-> IF m.usage_metadata.has_total
                           THEN m.usage_metadata.total_token_count
                           ELSE m.usage_metadata.prompt_tokens
                                + m.usage_metadata.completion_tokens]

\* C25: the token usage a successful Agent.invoke reports is the usage block
\* of the overall result when there is one; otherwise that of the last
\* result message that carries usage (provider metadata, or usage metadata
\* with the total computed as prompt plus completion when it has none);
\* when nothing carries usage the result is success=true with usage None.
C25_UsageIsFirstSuccessfulProbe ==
    \A i \in 1..Len(invoked) :
        LET inv == invoked[i]
            out == ExecMessages(inv.exec, inv.history.items \o <<HumanMessage(inv.query)>>)
            carriers == {j \in 1..Len(out) : CarriesUsage(out[j])}
        IN  FailureCause(inv) = <<>> =>
              /\ inv.result.success
              /\ inv.result.token_usage =
                    IF inv.exec.token_usage.present THEN inv.exec.token_usage
                    ELSE IF carriers = {} THEN NoUsage
                    ELSE UsageCarried(out[CHOOSE j \in carriers :
                                             \A k \in carriers : k <= j])

\* an invocation whose result has two messages carrying usage and no usage
\* block of its own: the later one is reported
C25_Witness ==
    /\ Returned
    /\ Len(invoked) = 1
    /\ invoked[1].result.success
    /\ ~invoked[1].exec.token_usage.present
    /\ Len(invoked[1].exec.generated) = 3
    /\ invoked[1].exec.generated[1].response_usage = UsageA
    /\ invoked[1].result.token_usage.present
    /\ invoked[1].result.token_usage.total_tokens = 5
    /\ invoked[1].result.token_usage.prompt_tokens = 4

(***************************************************************************)
(* Properties of the streamed turn, checked under SpecStream.               *)
(***************************************************************************)
IsContent(e) == e.json /\ e.type = "content"
IsDone(e) == e.json /\ e.type = "done"
IsError(e) == e.json /\ "error" \in e.keys
IsTerminator(e) == ~e.json

\* the concatenation of the content fragments among the events
RECURSIVE FragmentsOf(_)
FragmentsOf(evs) ==
    IF evs = <<>> THEN <<>>
    ELSE (IF IsContent(Head(evs)) THEN Head(evs).content ELSE <<>>)
             \o FragmentsOf(Tail(evs))

\* the assistant rows stored for the current turn
AssistantRows == { i \in 1..Len(db) : db[i].role = "assistant" /\ db[i].turn = turn }

EmittedFragment == \E i \in 1..Len(events) : IsContent(events[i])

StoreFailed == \E i \in 1..Len(events) : events[i].error = TxtDbDown

TurnOver == spc = "closed" /\ ~cancelled

\* C8: every streamed turn that emitted fragments and ran to its end with the
\* session store working, also one whose generation failed after the
\* fragments, has exactly one assistant message stored, whose content is the
\* concatenation of the fragments emitted.
C8_OneAssistantMessagePerStreamedTurn ==
    (TurnOver /\ EmittedFragment /\ ~StoreFailed) =>
        /\ Cardinality(AssistantRows) = 1
        /\ \A i \in AssistantRows : db[i].content = FragmentsOf(events)

\* C9: the events of a streamed turn are content events followed by one done
\* event and the terminator, or content events followed by one error event and
\* nothing else: an error event is last, the terminator is last and directly
\* follows the done event, a done event is followed by the terminator only, and
\* a turn that ran to its end has one of the two shapes in full.
C9_EventSequenceShape ==
    /\ \A i \in 1..Len(events) :
          /\ IsContent(events[i]) \/ IsDone(events[i]) \/ IsError(events[i])
                \/ IsTerminator(events[i])
          /\ IsError(events[i]) => i = Len(events)
          /\ IsTerminator(events[i]) =>
                i = Len(events) /\ i > 1 /\ IsDone(events[i - 1])
          /\ IsDone(events[i]) =>
                \/ i = Len(events)
                \/ i = Len(events) - 1 /\ IsTerminator(events[Len(events)])
          /\ ~IsContent(events[i]) => \A j \in 1..(i - 1) :
                IsContent(events[j]) \/ (IsDone(events[j]) /\ j = i - 1)
    /\ TurnOver =>
          /\ events # <<>>
          /\ \/ IsTerminator(events[Len(events)])
             \/ IsError(events[Len(events)])
          /\ Cardinality({ i \in 1..Len(events) :
                             IsDone(events[i]) \/ IsError(events[i]) }) = 1

\* a turn that failed after fragments were emitted ran to its end
C9_Witness ==
    /\ TurnOver
    /\ Len(events) >= 2
    /\ IsContent(events[1])
    /\ IsError(events[Len(events)])

\* C10: when the client disconnects after fragments were emitted, the text
\* accumulated so far is stored as the assistant message of the turn.
C10_DisconnectKeepsPartialOutput ==
    (spc = "closed" /\ cancelled /\ EmittedFragment) =>
        \E i \in AssistantRows : db[i].content = full_response

\* C11: every event of a streamed turn other than the terminator is a JSON
\* object whose type field is content, done or error, on every path, the
\* rag-mode turn with the retrieval engine unavailable included.
C11_EveryEventIsTyped ==
    \A i \in 1..Len(events) :
        events[i].json =>
            /\ "type" \in events[i].keys
            /\ events[i].type \in {"content", "done", "error"}

\* the turn was handed to the orchestrator, which has returned
AgentAnswered == engine = "orchestrator" /\ "response" \in DOMAIN ret

AgentToolsUsed == IF "tools_used" \in DOMAIN ret THEN ret.tools_used ELSE {}

DoneEmitted == \E i \in 1..Len(events) : IsDone(events[i])

\* C12: in an agent-mode streamed turn answered by a registered agent, every
\* content event carries one character, the characters emitted followed by
\* those still to emit are the agent's response, and once the done event is
\* out the fragments concatenate to the response, the one stored assistant
\* message has that text, and the done event carries the agent's tools_used.
C12_AgentStreamIsTheResponseByCharacter ==
    AgentAnswered =>
        /\ \A i \in 1..Len(events) :
              IsContent(events[i]) => Len(events[i].content) = 1
        /\ FragmentsOf(events) \o pending = ret.response
        /\ DoneEmitted =>
              /\ FragmentsOf(events) = ret.response
              /\ Cardinality(AssistantRows) = 1
              /\ \A i \in AssistantRows : db[i].content = ret.response
              /\ \A i \in 1..Len(events) :
                    IsDone(events[i]) => events[i].tools_used = AgentToolsUsed

\* an agent that used tools answered with several characters, all streamed
C12_Witness ==
    /\ AgentAnswered
    /\ spc = "sentinel_sent"
    /\ Len(ret.response) >= 2
    /\ AgentToolsUsed # {}
    /\ FragmentsOf(events) = ret.response

\* C13 (its rag-mode half on the streaming path): a rag-mode turn that has
\* produced output was answered by invoking the retrieval engine.
C13_RagTurnAnsweredByRetrievalEngine ==
    (request.mode = "rag" /\ (EmittedFragment \/ DoneEmitted)) =>
        engine = "retrieval"

(***************************************************************************)
(* Properties of tool loading, checked under SpecMcp.                       *)
(***************************************************************************)
IsOk(a) == a.outcome = "ok"
SucceededServers == SelectSeq(attempts, IsOk)

RECURSIVE ToolsOfAll(_)
ToolsOfAll(as) ==
    IF as = <<>> THEN <<>> ELSE ToolsOf(Head(as).server) \o ToolsOfAll(Tail(as))

\* every server entry tried had a url: the failures are those of connecting,
\* of initialising the session and of listing the tools
OnlyConnectionFailures == \A i \in 1..Len(attempts) : attempts[i].outcome # "nourl"

\* the loop of __aenter__ was entered
LoadingStarted == srv > 0

\* C14: whichever servers fail to connect, to initialise or to list their
\* tools, every enabled server is tried in configuration order and the list
\* load_mcp_tools returns is the tools of the servers that succeeded, in that
\* order; the same holds of the manager's list while loading.
C14_LoadSkipsFailedServers ==
    (LoadingStarted /\ OnlyConnectionFailures) =>
        /\ mgr_tools = ToolsOfAll(SucceededServers)
        /\ \A i \in 1..Len(attempts) : attempts[i].server = enabled_servers[i].id
        /\ mpc = "returned" =>
              /\ Len(attempts) = Len(enabled_servers)
              /\ loaded = ToolsOfAll(SucceededServers)

\* the first server failed, the second one's tools were returned
C14_Witness ==
    /\ mpc = "returned"
    /\ Len(attempts) = 2
    /\ attempts[1].outcome \in {"connect", "session", "initialize", "tools"}
    /\ attempts[2].outcome = "ok"
    /\ loaded = ToolsOf(attempts[2].server)
    /\ loaded # <<>>

Tracked(id) == \E i \in 1..Len(mgr_sessions) : mgr_sessions[i] = id

AllClosesOk == \A i \in 1..Len(closeLog) : closeLog[i].outcome = "ok"

\* C15: every connection and session opened while loading belongs to a
\* tracked pair, also for a server that connected and then failed, and is
\* closed once teardown has closed the tracked pairs without error.
C15_OpenedAreTrackedAndClosed ==
    /\ mpc \in {"entering", "exiting"} => \A r \in opened : Tracked(r.server)
    /\ (mpc = "returned" /\ AllClosesOk) => opened = {}

\* C16: when load_mcp_tools has returned the tools, to be handed to the
\* agent, the session behind every returned tool is open.
C16_SessionsOpenWhenToolsReturned ==
    mpc = "returned" =>
        \A i \in 1..Len(loaded) : Session(loaded[i].server) \in opened

RECURSIVE ClosesOf(_)
ClosesOf(ids) ==
    IF ids = <<>> THEN <<>>
    ELSE <<Session(Head(ids)), Client(Head(ids))>> \o ClosesOf(Tail(ids))

SucceededIds == [i \in 1..Len(SucceededServers) |-> SucceededServers[i].server]
LastFirst(ids) == [i \in 1..Len(ids) |-> ids[Len(ids) + 1 - i]]
Attempted == [i \in 1..Len(closeLog) |-> closeLog[i].what]

\* C17: teardown attempts to close the session and then the connection of
\* every tracked pair, the pair opened last first, whatever the outcome of
\* each close, and when it has returned the tracked set is empty.
C17_TeardownClosesAllInReverse ==
    (LoadingStarted /\ OnlyConnectionFailures) =>
        /\ mpc = "exiting" =>
              Attempted \o ClosesOf(closing) = ClosesOf(LastFirst(SucceededIds))
        /\ mpc = "returned" =>
              /\ Attempted = ClosesOf(LastFirst(SucceededIds))
              /\ mgr_sessions = <<>>

\* two pairs were torn down though closing the first one failed twice
C17_Witness ==
    /\ mpc = "returned"
    /\ Len(closeLog) = 4
    /\ closeLog[1].outcome = "error"
    /\ closeLog[2].outcome = "timeout"
    /\ closeLog[1].what.server # closeLog[3].what.server
    /\ mgr_sessions = <<>>

(***************************************************************************)
(* Properties of URL normalisation, checked under SpecUrl.                  *)
(***************************************************************************)
Normalized == final_url # <<>>

\* C18: the normalised URL ends in /mcp, has no trailing slash and does not
\* end in /sse; normalising it again changes nothing; and the URL with one
\* more trailing slash or one more trailing /sse segment normalises to the
\* same endpoint.
C18_NormalizeUrlCanonical ==
    Normalized =>
        /\ EndsWith(final_url, SlashMcp)
        /\ final_url[Len(final_url)] # "/"
        /\ ~EndsWith(final_url, SlashSse)
        /\ NormalizeUrl(final_url) = final_url
        /\ NormalizeUrl(server_url \o <<"/">>) = final_url
        /\ NormalizeUrl(server_url \o SlashSse) = final_url

(***************************************************************************)
(* Properties of the retrieval engine, checked under SpecRag.               *)
(***************************************************************************)
ChunksOfDocument(d) == {j \in 1..Len(store) : store[j].doc = d}

\* position of chunk i among the stored chunks of its own document
IndexInDocument(i) == Cardinality({j \in ChunksOfDocument(store[i].doc) : j < i})

\* C19: every stored chunk carries the number of chunks of its own source
\* document as total_chunks and its position among them as chunk_index, so
\* the indexes of a document are 0..total_chunks-1, also for documents
\* ingested together in one call.
C19_ChunkIndexPerDocument ==
    \A i \in 1..Len(store) :
        /\ store[i].total_chunks = Cardinality(ChunksOfDocument(store[i].doc))
        /\ store[i].chunk_index = IndexInDocument(i)

IsRetrieval == rag_call.op \in {"retrieve", "retrieve_with_scores"}

\* C20: retrieve and retrieve_with_scores return at most k results, none of
\* them scored below the threshold.
C20_RetrievalBoundedAndAboveThreshold ==
    IsRetrieval =>
        /\ Len(rag_ret.results) <= EffectiveK(rag_call.k)
        /\ \A i \in 1..Len(rag_ret.results) :
              rag_ret.results[i].score >= ScoreThreshold

IsAdd == rag_call.op \in {"add_documents", "add_text"}

\* C21: on an engine whose initialisation failed every operation returns its
\* fixed neutral result and reaches no backend: query_with_history the
\* unavailable notice, add_documents and add_text success=false, retrieve
\* and retrieve_with_scores an empty list, get_collection_stats
\* available=false and clear_collection false; nothing is ever stored.
C21_UnavailableEngineIsNeutral ==
    (~ragAvailable /\ rag_call.op # None) =>
        /\ ~rag_call.backend
        /\ store = <<>>
        /\ rag_call.op = "query_with_history" => rag_ret.answer = TxtRagNotAvailable
        /\ IsAdd => ~rag_ret.success /\ rag_ret.error = TxtRagUnavailable
        /\ IsRetrieval => rag_ret.results = <<>>
        /\ rag_call.op = "get_collection_stats" => ~rag_ret.available
        /\ rag_call.op = "clear_collection" => ~rag_ret.success

C21_Witness ==
    /\ ~ragAvailable
    /\ rag_call.op = "query_with_history"
    /\ rag_ret.answer = TxtRagNotAvailable

\* the metadata list of an add_text call has another length than the texts
MetadataMismatch ==
    /\ rag_call.op = "add_text"
    /\ rag_call.metadatas.given
    /\ rag_call.metadatas.len # rag_call.ndocs

\* C22: add_documents and add_text on an available engine return
\* success=false with an error string when the splitter or the index raised
\* or when the metadata list does not match the texts; a successful call
\* reports the number of input documents as documents_added and the number
\* of chunks appended to the store as chunks_created.
C22_AddReportsFailureAndCounts ==
    (IsAdd /\ ragAvailable) =>
        /\ (rag_call.fail # "none" \/ MetadataMismatch) =>
              ~rag_ret.success /\ rag_ret.error # <<>>
        /\ rag_ret.success =>
              /\ rag_ret.documents_added = rag_call.ndocs
              /\ rag_ret.chunks_created = Len(store) - rag_call.store_before

(***************************************************************************)
(* Properties of the token-usage utilities, checked under SpecLedger.       *)
(***************************************************************************)
IsCostCall == usage_call.op = "calculate_cost"

\* the returned cost is the rounding of a cost of units 1e-8 dollars
IsCostOf(units) ==
    /\ ~usage_ret.cost.none
    /\ usage_ret.cost.micro * 100 - units \in -50..50

\* C23: calculate_cost returns None exactly when both token counts are zero.
\* Otherwise it returns a number for every provider and model: priced by the
\* model's entry when the provider's table has one, by the provider's default
\* entry when it has not, by the generic default for a provider without a
\* table, and 0.0 for the zero-priced provider.
C23_CostNoneOnlyWithoutTokens ==
    IsCostCall =>
        LET p == usage_call.prompt_tokens
            c == usage_call.completion_tokens
        IN  /\ usage_ret.cost.none <=> (p = 0 /\ c = 0)
            /\ ~usage_ret.cost.none =>
                  /\ usage_ret.cost.micro >= 0
                  /\ (usage_call.provider \in {None, "openai"} /\ usage_call.model = "gpt-4o")
                        => IsCostOf(250 * p + 1000 * c)
                  /\ (usage_call.provider = "anthropic"
                      /\ usage_call.model = "claude-3-haiku-20240307")
                        => IsCostOf(25 * p + 125 * c)
                  /\ (usage_call.provider \in {None, "openai"}
                      /\ usage_call.model = "no-such-model")
                        => IsCostOf(100 * p + 200 * c)
                  /\ (usage_call.provider = "anthropic" /\ usage_call.model = "gpt-4o")
                        => IsCostOf(300 * p + 1500 * c)
                  /\ usage_call.provider \in {"gemini", "acme"}
                        => IsCostOf(100 * p + 200 * c)
                  /\ usage_call.provider = "groq" => usage_ret.cost.micro = 0

C23_Witness ==
    /\ IsCostCall
    /\ usage_call.provider = "groq"
    /\ usage_call.prompt_tokens > 0
    /\ usage_ret.cost = Cost(0)

\* C24: extract_token_usage returns the counters of the first of the four
\* probes (provider metadata, usage metadata, usage mapping, usage object)
\* that is structurally valid; a probe that is present but empty or of the
\* wrong shape is skipped, and the result is None when no probe is valid.
C24_FirstValidProbeWins ==
    usage_call.op = "extract_token_usage" =>
        LET r == usage_call.response
        IN  usage_ret.usage =
                IF r.response_metadata \in {"block", "block_no_total"} THEN BlockUsage
                ELSE IF r.usage_metadata = "object" THEN UsageMetadataUsage
                ELSE IF r.token_usage = "dict" THEN TokenUsageUsage
                ELSE IF r.usage = "object" THEN UsageUsage
                ELSE NoUsage

(***************************************************************************)
(* Properties of the concurrent request handlers, checked under SpecTurns.  *)
(***************************************************************************)
\* the rows of the Message table that request t saved with a role
RowsOf(t, role) ==
    {i \in 1..Len(msg_table) : msg_table[i].req = t /\ msg_table[i].role = role}

\* the short user messages of conversation c, as row numbers
ShortUserRows(c) ==
    {i \in 1..Len(msg_table) : /\ msg_table[i].conv = c
                               /\ msg_table[i].role = "user"
                               /\ Len(msg_table[i].content) < TitleLimit}

FirstOf(S) == CHOOSE i \in S : \A j \in S : i <= j

\* C26: a conversation's title is the first short user message of its
\* session: it is set as soon as the turn of that message has completed,
\* whichever endpoint served it, and it is never anything else.
C26_TitleIsFirstShortMessage ==
    \A c \in 1..Len(convs) :
        /\ convs[c].title # NoTitle =>
              /\ ShortUserRows(c) # {}
              /\ convs[c].title = msg_table[FirstOf(ShortUserRows(c))].content
        /\ (/\ ShortUserRows(c) # {}
            /\ tasks[msg_table[FirstOf(ShortUserRows(c))].req].status = "ok")
              => convs[c].title = msg_table[FirstOf(ShortUserRows(c))].content

\* C27: whatever the interleaving of the requests, load_mcp_tools is called
\* at most once and at most one agent is ever registered.
C27_RegistryInitializedOnce ==
    /\ tool_loads <= 1
    /\ Len(regLog) <= 1

\* the history of request t's conversation as it was just before the
\* request's own user message
PriorHistory(t) ==
    LoadConversationHistory(SubSeq(msg_table, 1, FirstOf(RowsOf(t, "user")) - 1),
                            tasks[t].conv)

\* C28: the message list a handler gives to the model or to the agent is the
\* history of the conversation before the turn followed by the turn's user
\* message, once and last; the handler's own history list is that prior
\* history, also after Agent.invoke has built its list from it.
C28_EngineGetsHistoryThenMessage ==
    \A t \in Requests :
        (tasks[t].pc = "generating" /\ tasks[t].engine \in {"llm", "orchestrator"}) =>
            /\ Cardinality(RowsOf(t, "user")) = 1
            /\ tasks[t].given = PriorHistory(t) \o <<HumanMessage(tasks[t].message)>>
            /\ tasks[t].history = PriorHistory(t)

\* an agent is given a list that has an earlier turn of the conversation
\* before the current message
C28_Witness ==
    \E t \in Requests :
        /\ tasks[t].pc = "generating"
        /\ tasks[t].engine = "orchestrator"
        /\ Len(tasks[t].given) = 3
        /\ tasks[t].given[2].type = "ai"

\* C29: a turn that completed has exactly one user row and one assistant
\* row in the Message table, both attached to the one conversation of its
\* session, also when it ran concurrently with another turn of that session.
C29_CompletedTurnsKeepAllMessages ==
    \A t \in Requests :
        tasks[t].status = "ok" =>
            /\ Cardinality(RowsOf(t, "user")) = 1
            /\ Cardinality(RowsOf(t, "assistant")) = 1
            /\ \A i \in RowsOf(t, "user") \cup RowsOf(t, "assistant") :
                  msg_table[i].conv = tasks[t].conv
            /\ \A c \in 1..Len(convs) :
                  convs[c].session_id = convs[tasks[t].conv].session_id => c = tasks[t].conv

\* two turns of one session that overlapped (both user messages were saved
\* before either reply) and both completed
C29_Witness ==
    /\ tasks[1].status = "ok"
    /\ tasks[2].status = "ok"
    /\ tasks[1].conv = tasks[2].conv
    /\ Len(msg_table) = 4
    /\ msg_table[1].role = "user" /\ msg_table[2].role = "user"
    /\ msg_table[3].req = 2 /\ msg_table[4].req = 1

\* C30: once a turn has saved its user message the message stays in the
\* table, and a turn that then ended in a failure (the model raised, the
\* retrieval engine was unavailable, saving the assistant message failed)
\* has no assistant message.
C30_FailedTurnKeepsOnlyUserMessage ==
    \A t \in Requests :
        tasks[t].begun =>
            /\ Cardinality(RowsOf(t, "user")) = 1
            /\ tasks[t].status \in {"failed", "unavailable"} => RowsOf(t, "assistant") = {}

====
